---- MODULE Spec2Model ----
(***************************************************************************)
(* Device-control runtime of ValorenceCLE/Backend: the relay authority     *)
(* (app/services/controller.py), the Celery relay tasks and API routes     *)
(* (app/core/tasks/relay_tasks.py, app/api/relay.py), the schedule check   *)
(* and the rule engine (app/core/tasks/rule_tasks.py).                     *)
(***************************************************************************)
EXTENDS Integers, Sequences, FiniteSets, TLC

(***************************************************************************)
(* Bounds of the model.                                                    *)
(***************************************************************************)
MaxCmds == 3

MaxFaults == 1

MaxSamples == 8

MaxRedisFaults == 1

MaxTicks == 2

MaxConfigCalls == 2

MaxTime == 70

MaxPoints == 7

MaxReboots == 3

(***************************************************************************)
(* Program constants.                                                      *)
(***************************************************************************)
\* celery_app/__init__.py: worker_pool='solo', worker_concurrency=1
MutWorkerConcurrency == 1 + 1

WorkerConcurrency == 1

\* env.HARDWARE_CONFIG, restricted to one relay of each wiring polarity
Relays == {"relay_1", "relay_3"}

HARDWARE_CONFIG == [r \in Relays |-> IF r = "relay_1" THEN "closed" ELSE "open"]

Levels == {"ACTIVE", "INACTIVE"}

(***************************************************************************)
(* RelayControl: polarity translation.                                     *)
(***************************************************************************)
Mut_logical_to_hardware_value(normally, logical_state) ==
    IF logical_state = 1 THEN "ACTIVE" ELSE "INACTIVE"

logical_to_hardware_value(normally, logical_state) ==
    IF normally = "open"
    THEN (IF logical_state = 1 THEN "ACTIVE" ELSE "INACTIVE")
    ELSE (IF logical_state = 1 THEN "INACTIVE" ELSE "ACTIVE")

hardware_to_logical_state(normally, hardware_value) ==
    IF normally = "open"
    THEN (IF hardware_value = "ACTIVE" THEN 1 ELSE 0)
    ELSE (IF hardware_value = "INACTIVE" THEN 1 ELSE 0)

VARIABLES
    level,      \* GPIO line value of every relay
    lock,       \* RelayControl._lock of every relay instance
    queue,      \* broker queue of task messages (FIFO)
    eta,        \* task messages held back by a countdown, in scheduling order
    run,        \* what each worker slot is executing
    last,       \* per relay: the last completed state change (history)
    lastget,    \* per relay: the state read since then, -1 if none (history)
    gateSeq,    \* per relay: number of state changes that have begun (history)
    lastok,     \* per relay: the state the last successful command asked for,
                \* the state found at start if there was none (history)
    routes,     \* pulse routes that hold their state reading
    ncmd,       \* number of API commands submitted so far
    faults,     \* number of hardware faults so far
    rule_op,            \* operator of the configured rule t1
    redis_client,       \* whether rule_tasks connected to Redis at import
    redis_state,        \* Redis key r:<id>:state of every rule: "none", "0", "1"
    local_rule_states,  \* _local_rule_states: -1 (no entry), 0, 1
    nsamples,           \* number of samples read so far
    redis_faults,       \* number of failed Redis commands so far
    hist,               \* per rule: counters about the evaluations (history)
    now,                \* datetime.now(): weekday (0 = Monday), hour, minute
    config_relays,      \* config.relays: enabled flag and schedule of each relay
    checked,            \* per relay: what the last schedule check found (history)
    nticks,             \* number of schedule checks the beat has started
    config_manager,     \* ConfigurationManager: _default_config, _custom_config,
                        \* _effective_config, _is_initialized
    custom_file,        \* the custom configuration file on disk
    pending_section,    \* section updates between their two locked parts
    cfg_hist,           \* the last configuration call and what it found (history)
    ncfg,               \* number of configuration calls so far
    time,               \* time.time(), in seconds
    connection_manager, \* InfluxDBConnectionManager: failure_count,
                        \* last_failure_time, circuit_open
    points_buffer,      \* number of points in InfluxDBWriter.points_buffer
    sink_hist,          \* what the flushes and hand-offs so far did (history)
    npoints,            \* number of points written so far
    redis_keys,         \* Redis keys of the reboot actions: absent, or set
                        \* with the time they expire at
    watchdog,           \* writes to /dev/watchdog so far (history)
    nreboots,           \* number of reboot actions so far
    change_listeners,   \* ConfigurationManager._change_listeners
    section_listeners,  \* ConfigurationManager._section_listeners
    notify_hist,        \* what the last notification of the listeners did
                        \* (history)
    sensor_health,      \* SensorDataCollector._sensor_health: no entry, True
                        \* or False for every sensor
    failed_reads,       \* per sensor: the failed reads since the last
                        \* successful one, counted up to UnhealthyAfter (history)
    awaiting,           \* per API route: whether a request is waiting in
                        \* task.get, for how many seconds, and how it returned
    active_connections, \* WebSocketManager.active_connections: the connection
                        \* ids whose list holds their websocket
    streams,            \* per live-stream connection: where its handler is,
                        \* whether the peer is still there, the frames sent
                        \* and whether a send has failed
    latest_sensor_data, \* app/api/websocket.py latest_sensor_data: the data
                        \* sources that have data
    configured,         \* the ids of config.relays
    command,            \* the relay command answered last: route, id, status
                        \* code and the levels before and after it (history)
    background_tasks,   \* the tasks that the configuration routes have added
                        \* and that have not run yet
    api_answer,         \* the request answered last: what was asked, by whom,
                        \* the route that took it and the answer (history)
    config_posts,       \* which configuration POSTs of an admin have been
                        \* answered: none, only reverts, or others too (history)
    nreq,               \* requests so far
    worker_loaded,      \* worker process: whether SimpleConfigManager._config
                        \* has been loaded
    config_file,        \* the custom configuration file as the worker's
                        \* manager parses it: empty, or its relays and rules
    api_config,         \* API process: the relays and rules of the effective
                        \* configuration of ConfigurationManager
    reload_hist,        \* whether an update has completed and whether a task
                        \* has read the configuration since (history)
    reader_manager,     \* API process: the InfluxDBConnectionManager of
                        \* InfluxDBReader (failure_count, last_failure_time,
                        \* circuit_open)
    open_clients,       \* API process: InfluxDB clients created and not closed
    query_hist,         \* what the last query did (history)
    nqueries,           \* queries so far
    cm_lock,            \* ConfigurationManager._lock: whether it is locked,
                        \* and the coroutine whose acquire locked it (history)
    coroutines,         \* per coroutine: the operation of the manager it runs
                        \* and the await it is suspended at
    lock_hist,          \* whether the lock was released by a coroutine that
                        \* did not hold it (history)
    nops                \* operations of the manager begun so far

relay_vars == <<level, lock, eta, run, last, lastget, gateSeq, lastok, routes, ncmd,
                faults>>

rule_vars == <<rule_op, redis_client, redis_state, local_rule_states, nsamples,
               redis_faults, hist>>

sched_vars == <<now, config_relays, checked, nticks>>

cfg_vars == <<config_manager, custom_file, pending_section, cfg_hist, ncfg>>

sink_vars == <<connection_manager, points_buffer, sink_hist, npoints>>

reboot_vars == <<redis_keys, watchdog, nreboots>>

listener_vars == <<change_listeners, section_listeners, notify_hist>>

health_vars == <<sensor_health, failed_reads>>

stream_vars == <<active_connections, streams, latest_sensor_data>>

reload_vars == <<worker_loaded, config_file, api_config, reload_hist>>

query_vars == <<reader_manager, open_clients, query_hist, nqueries>>

lock_vars == <<cm_lock, coroutines, lock_hist, nops>>

command_vars == <<configured, command>>

api_vars == <<background_tasks, api_answer, config_posts, nreq>>

vars == <<queue, relay_vars, rule_vars, sched_vars, cfg_vars, time, sink_vars,
          reboot_vars, listener_vars, health_vars, awaiting, stream_vars,
          command_vars, api_vars, reload_vars, query_vars, lock_vars>>

Slots == 1..WorkerConcurrency

\* A task message. rep is the state the pulse route answered with; pre, post,
\* moved and touched are history carried by the reverse step of a pulse: the
\* state before and after the pulse's toggle, whether a later command has
\* changed the relay's state, and whether a later command was applied at all.
\* value is the sample of an evaluate_rules message; rule and action name the
\* rule and the index of its action in an execute_action message.
Msg(task, relay, state, origin, rep) ==
    [task |-> task, relay |-> relay, state |-> state, origin |-> origin,
     rep |-> rep, pre |-> -1, post |-> -1, moved |-> FALSE, touched |-> FALSE,
     value |-> -1, rule |-> "none", action |-> 0, original |-> -1]

NoMsg == Msg("none", "none", FALSE, "none", -1)

Idle == [pc |-> "idle", msg |-> NoMsg, cur |-> -1, new |-> -1, seq |-> 0]

NoEntry ==
    [msg |-> NoMsg, before |-> -1, req |-> -1, status |-> "none", state |-> -1,
     initial_state |-> -1, seq |-> 0]

\* RelayControl.state / _get_current_state
current_state(r) == hardware_to_logical_state(HARDWARE_CONFIG[r], level[r])

InitRelays(levels) ==
    /\ level \in levels
    /\ lock = [r \in Relays |-> FALSE]
    /\ queue = <<>>
    /\ eta = <<>>
    /\ run = [w \in Slots |-> Idle]
    /\ last = [r \in Relays |-> NoEntry]
    /\ lastget = [r \in Relays |-> -1]
    /\ gateSeq = [r \in Relays |-> 0]
    /\ lastok = [r \in Relays |-> current_state(r)]
    /\ routes = {}
    /\ ncmd = 0
    /\ faults = 0

(***************************************************************************)
(* Schedules: _should_be_on and env.DAY_BITMASK.                           *)
(***************************************************************************)
\* A time of day as the text HH:MM, a sequence of character codes
strftime(hour, minute) ==
    <<48 + (hour \div 10), 48 + (hour % 10), 58, 48 + (minute \div 10), 48 + (minute % 10)>>

\* Python's str < str: the first differing character decides, a proper
\* prefix is smaller
RECURSIVE str_lt(_, _)
str_lt(a, b) ==
    IF b = <<>> THEN FALSE
    ELSE IF a = <<>> THEN TRUE
    ELSE IF Head(a) # Head(b) THEN Head(a) < Head(b)
    ELSE str_lt(Tail(a), Tail(b))

str_le(a, b) == a = b \/ str_lt(a, b)

\* Python's int & int on naturals
RECURSIVE bit_and(_, _)
bit_and(a, b) ==
    IF a = 0 \/ b = 0 THEN 0
    ELSE 2 * bit_and(a \div 2, b \div 2) + (IF a % 2 = 1 /\ b % 2 = 1 THEN 1 ELSE 0)

day_names == <<"Monday", "Tuesday", "Wednesday", "Thursday", "Friday", "Saturday", "Sunday">>

DAY_BITMASK ==
    [d \in {day_names[i] : i \in DOMAIN day_names} |->
        CASE d = "Sunday" -> 2
          [] d = "Monday" -> 4
          [] d = "Tuesday" -> 8
          [] d = "Wednesday" -> 16
          [] d = "Thursday" -> 32
          [] d = "Friday" -> 64
          [] d = "Saturday" -> 128]

\* A schedule of the configuration; present is FALSE when the relay has none,
\* and an on_time or off_time that is not set is the empty text
Schedule(present, enabled, on_time, off_time, days_mask) ==
    [present |-> present, enabled |-> enabled, on_time |-> on_time,
     off_time |-> off_time, days_mask |-> days_mask]

NoSchedule == Schedule(FALSE, FALSE, <<>>, <<>>, 0)

\* _should_be_on: the window test that compares the texts
Mut_in_window(on_time, off_time, current_time) ==
    IF str_lt(off_time, on_time)
    THEN str_le(on_time, current_time) \/ str_lt(current_time, off_time)
    ELSE str_le(on_time, current_time) /\ str_le(current_time, off_time)

in_window(on_time, off_time, current_time) ==
    IF str_lt(off_time, on_time)
    THEN str_le(on_time, current_time) \/ str_lt(current_time, off_time)
    ELSE str_le(on_time, current_time) /\ str_lt(current_time, off_time)

\* _should_be_on(relay) at the time t
should_be_on(relay, t) ==
    LET schedule == relay.schedule IN
    IF ~schedule.present \/ ~schedule.enabled THEN FALSE
    ELSE
    LET on_time == IF schedule.on_time = <<>> THEN strftime(0, 0) ELSE schedule.on_time
        off_time == IF schedule.off_time = <<>> THEN strftime(23, 59) ELSE schedule.off_time
        days_mask == schedule.days_mask
        current_time == strftime(t.hour, t.minute)
        current_day_name == day_names[t.weekday + 1]
        day_bit == DAY_BITMASK[current_day_name]
    IN  IF bit_and(days_mask, day_bit) = 0 THEN FALSE
        ELSE in_window(on_time, off_time, current_time)

(***************************************************************************)
(* The rule engine of app/core/tasks/rule_tasks.py.                        *)
(***************************************************************************)
\* Largest number of messages the sensor task leaves waiting in the broker
MaxPending == 1
MaxFrames == 2
MaxRequests == 3
MaxRuns == 3
MaxReloadSamples == 1
MaxQueries == 2
MaxOps == 4

\* Sample values of the field "volts"
Values == 8..12

Operators == {">", "<", ">=", "<=", "==", "!=", "~"}

\* config.tasks: t1 watches the volts of relay_3 and has two actions, t2
\* watches a field that the samples do not carry, t3 another source
config_tasks(operator) ==
    << [id |-> "t1", source |-> "relay_3", field |-> "volts", operator |-> operator,
        value |-> 10,
        actions |-> << [type |-> "io", target |-> "relay_3", state |-> "on"],
                       [type |-> "log", target |-> "none", state |-> "none"] >>],
       [id |-> "t2", source |-> "relay_3", field |-> "temperature", operator |-> ">",
        value |-> 10,
        actions |-> << [type |-> "log", target |-> "none", state |-> "none"] >>],
       [id |-> "t3", source |-> "relay_1", field |-> "volts", operator |-> ">",
        value |-> 10,
        actions |-> << [type |-> "log", target |-> "none", state |-> "none"] >>] >>

\* config.tasks of the configuration the worker holds
tasks == config_tasks(rule_op)

RuleIds == {tasks[i].id : i \in DOMAIN tasks}

\* mapped_data of one reading
SampleData(v) == [f \in {"volts"} |-> v]

\* History of one rule: the number of samples evaluated against it, how many
\* of them continue the sequence Example from its start, the number of
\* TRIGGERED edges taken, the latch that the samples evaluated so far define
\* (true from a sample that satisfies the predicate to the next one that does
\* not), whether an edge was taken or left out against that latch, and
\* whether an edge was taken while that latch was true
NoHist ==
    [evals |-> 0, example |-> 0, fired |-> 0, latched |-> FALSE, wrong |-> FALSE,
     refired |-> FALSE]

Example == <<9, 10, 11, 12, 11, 9, 8, 11>>

(***************************************************************************)
(* Configuration documents (app/core/services/config_manager.py). A         *)
(* document is a function from keys to values; a scalar is the text of its  *)
(* JSON value. In the documents considered here the key tells the type of   *)
(* its value.                                                              *)
(***************************************************************************)
DictKeys == {"general", "schedule"}

ListKeys == {"relays", "tasks", "actions"}

EmptyDoc == [key \in {} |-> ""]

\* The default configuration file
DefaultRelay(id) ==
    [id |-> id, pulse_time |-> "5", schedule |-> [enabled |-> "false", days_mask |-> "0"]]

DefaultDoc ==
    [general |-> [system_name |-> "Valorence System", version |-> "1.0.0"],
     relays |-> <<DefaultRelay("relay_1"), DefaultRelay("relay_2"), DefaultRelay("relay_3")>>,
     tasks |-> <<[id |-> "t1", source |-> "relay_3", field |-> "volts",
                  actions |-> <<[type |-> "log"]>>]>>]

Max(S) == CHOOSE x \in S : \A y \in S : y <= x

RECURSIVE deep_merge(_, _)
RECURSIVE merge_items(_, _, _)

\* _merge_list_by_id: target_dict is built from the target list once; an item
\* of the source with an id found there is merged into that element, one with
\* another id is appended, one without id is passed over
merge_items(target_list, source_list, target_dict) ==
    IF source_list = <<>> THEN target_list
    ELSE
    LET source_item == Head(source_list) IN
    IF "id" \notin DOMAIN source_item
    THEN merge_items(target_list, Tail(source_list), target_dict)
    ELSE
    LET found == {i \in DOMAIN target_dict :
                     "id" \in DOMAIN target_dict[i] /\ target_dict[i].id = source_item.id}
    IN  IF found # {}
        THEN merge_items([target_list EXCEPT ![Max(found)] = deep_merge(@, source_item)],
                         Tail(source_list), target_dict)
        ELSE merge_items(Append(target_list, source_item), Tail(source_list), target_dict)

Mut_merge_list_by_id(target_list, source_list) == target_list \o source_list

merge_list_by_id(target_list, source_list) ==
    merge_items(target_list, source_list, target_list)

\* _deep_merge
Mut_deep_merge(target, source) ==
    [key \in DOMAIN target \cup DOMAIN source |->
        IF key \in DOMAIN source THEN source[key] ELSE target[key]]

deep_merge(target, source) ==
    [key \in DOMAIN target \cup DOMAIN source |->
        IF key \notin DOMAIN source THEN target[key]
        ELSE IF key \notin DOMAIN target THEN source[key]
        ELSE IF key \in DictKeys THEN deep_merge(target[key], source[key])
        ELSE IF key \in ListKeys
        THEN (IF key \in {"relays", "tasks"}
              THEN merge_list_by_id(target[key], source[key])
              ELSE source[key])
        ELSE source[key]]

\* _generate_effective_config
generate_effective_config(default, custom) ==
    IF custom # EmptyDoc THEN deep_merge(default, custom) ELSE default

\* The custom documents that the calls are given
CustomRelays ==
    {[id |-> "relay_2", pulse_time |-> "9"],
     [id |-> "relay_2", schedule |-> [enabled |-> "true"]],
     [id |-> "relay_9", pulse_time |-> "9"],
     [id |-> "relay_8"],
     [pulse_time |-> "9"],
     [id |-> "relay_1", pulse_time |-> "fast"]}

RelayLists ==
    {<<>>} \cup {<<a>> : a \in CustomRelays}
        \cup {<<[id |-> "relay_2", pulse_time |-> "9"],
                 [id |-> "relay_2", schedule |-> [enabled |-> "true"]]>>,
               <<[id |-> "relay_9", pulse_time |-> "9"], [id |-> "relay_8"]>>,
               <<[id |-> "relay_9", pulse_time |-> "9"],
                 [id |-> "relay_9", pulse_time |-> "9"]>>}

TaskLists ==
    {<<[id |-> "t1", actions |-> <<[type |-> "reboot"]>>]>>,
     <<[id |-> "t1", field |-> "temperature"]>>}

Generals == {[system_name |-> "Site 7"]}

Sections(key) ==
    IF key = "general" THEN Generals
    ELSE IF key = "relays" THEN RelayLists
    ELSE TaskLists

SectionKeys == {"general", "relays", "tasks"}

Document(keys, g, r, t) ==
    [key \in keys |-> IF key = "general" THEN g ELSE IF key = "relays" THEN r ELSE t]

\* Documents of at most one section with any of its values, and documents of
\* all three sections with a relay list of two elements
CustomDocuments ==
    {Document(keys, g, r, t) :
        keys \in {ks \in SUBSET SectionKeys : Cardinality(ks) <= 1},
        g \in Generals, r \in RelayLists, t \in TaskLists}
    \cup {Document(SectionKeys, g, r, t) :
             g \in Generals, r \in {l \in RelayLists : Len(l) = 2}, t \in TaskLists}

NoFile == [exists |-> FALSE, content |-> EmptyDoc]

File(content) == [exists |-> TRUE, content |-> content]

\* The schema: ApplicationConfig and its parts, for the keys considered here
IsInt(text) == text \in {"0", "5", "9", "124"}

IsBool(text) == text \in {"true", "false"}

RelayFieldsValid(relay) ==
    /\ "pulse_time" \in DOMAIN relay => IsInt(relay.pulse_time)
    /\ "schedule" \in DOMAIN relay =>
          /\ "enabled" \in DOMAIN relay.schedule => IsBool(relay.schedule.enabled)
          /\ "days_mask" \in DOMAIN relay.schedule => IsInt(relay.schedule.days_mask)

TaskFieldsValid(task) ==
    "actions" \in DOMAIN task =>
        \A i \in DOMAIN task.actions : "type" \in DOMAIN task.actions[i]

\* A document that names only some keys: what it names fits the schema
FitsSchema(doc) ==
    /\ "relays" \in DOMAIN doc =>
          \A i \in DOMAIN doc.relays :
              "id" \in DOMAIN doc.relays[i] /\ RelayFieldsValid(doc.relays[i])
    /\ "tasks" \in DOMAIN doc =>
          \A i \in DOMAIN doc.tasks :
              "id" \in DOMAIN doc.tasks[i] /\ TaskFieldsValid(doc.tasks[i])

\* ApplicationConfig.model_validate
validate(doc) ==
    /\ {"general", "relays", "tasks"} \subseteq DOMAIN doc
    /\ {"system_name", "version"} \subseteq DOMAIN doc.general
    /\ FitsSchema(doc)
    /\ \A i \in DOMAIN doc.tasks :
          {"source", "field", "actions"} \subseteq DOMAIN doc.tasks[i]

\* The sensors and the fields of their samples
SensorSources ==
    {"relay_1", "relay_2", "relay_3", "relay_4", "relay_5", "relay_6", "main"}

SensorFields == {"volts", "amps", "watts"}

NoCall ==
    [op |-> "none", fits |-> TRUE, result |-> FALSE, file_kept |-> TRUE,
     effective_kept |-> TRUE]

CfgIdle ==
    /\ config_manager = [_default_config |-> EmptyDoc, _custom_config |-> EmptyDoc,
                         _effective_config |-> EmptyDoc, _is_initialized |-> FALSE]
    /\ custom_file = NoFile
    /\ pending_section = {}
    /\ cfg_hist = NoCall
    /\ ncfg = 0

\* The times and days masks that the schedules and the clock are drawn from
TimePoints == {<<0, 0>>, <<5, 0>>, <<6, 0>>, <<9, 59>>, <<10, 0>>, <<22, 0>>, <<23, 0>>,
               <<23, 59>>}

Times == {strftime(t[1], t[2]) : t \in TimePoints}

Masks == {0, 1, 124, 130, 254}

Clock == [weekday : 0..6, hour : {t[1] : t \in TimePoints}, minute : {t[2] : t \in TimePoints}]

Instants == {c \in Clock : <<c.hour, c.minute>> \in TimePoints}

Instant(weekday, hour, minute) == [weekday |-> weekday, hour |-> hour, minute |-> minute]

Monday2300 == Instant(0, 23, 0)

\* The instants at which the schedule check runs
TickInstants ==
    {Monday2300, Instant(0, 6, 0), Instant(1, 5, 0), Instant(2, 10, 0), Instant(5, 23, 0),
     Instant(1, 9, 0), Instant(1, 17, 5)}

MonFri2200to0600 == Schedule(TRUE, TRUE, strftime(22, 0), strftime(6, 0), 124)

MonFri0800to1700 == Schedule(TRUE, TRUE, strftime(8, 0), strftime(17, 0), 124)

\* config.relays, in the order of the list
RelayOrder == <<"relay_1", "relay_3">>

RelayConfig(enabled, schedule) == [enabled |-> enabled, schedule |-> schedule]

\* seq is the number of state changes of the relay that had begun when the
\* check looked at it (history)
NoCheck ==
    [status |-> "none", should |-> FALSE, is_on |-> FALSE, issued |-> "none",
     at |-> Monday2300, seq |-> 0]

SchedIdle ==
    /\ now = Monday2300
    /\ config_relays = [r \in Relays |-> RelayConfig(TRUE, NoSchedule)]
    /\ checked = [r \in Relays |-> NoCheck]
    /\ nticks = 0

RulesIdle ==
    /\ redis_state = [id \in RuleIds |-> "none"]
    /\ local_rule_states = [id \in RuleIds |-> -1]
    /\ nsamples = 0
    /\ redis_faults = 0
    /\ hist = [id \in RuleIds |-> NoHist]

(***************************************************************************)
(* Time-series sink and reboot action: data.                               *)
(***************************************************************************)
\* InfluxDBConnectionManager.__init__
reset_timeout == 60

failure_threshold == 5

\* InfluxDBWriter.__init__
batch_size == 20

flush_interval == 5

\* What the store does when it is called: it answers, it refuses the ping (or
\* cannot be reached), or it answers the ping and fails the write
StoreOutcomes == {"ok", "ping_fails", "write_fails"}

\* Seconds a call of the store takes
Durations == {0, flush_interval}

\* Seconds that pass between two calls
Pauses == {flush_interval, reset_timeout}

\* Points the collector's writer holds at the start: none, or those of the
\* earlier read_all_sensors runs (no periodic flush runs for this writer)
BufferedAtStart == {0, batch_size - 2}

\* The sensor whose samples are followed through the sink: the source of rule t1
SinkSensors == {"relay_3"}

NoFlush ==
    [called |-> FALSE, open |-> FALSE, probe |-> FALSE, contacted |-> FALSE,
     stored |-> FALSE, batch |-> 0]

NoHandoff == [done |-> FALSE, waited |-> FALSE]

SinkIdle ==
    /\ connection_manager =
           [failure_count |-> 0, last_failure_time |-> 0, circuit_open |-> FALSE]
    /\ points_buffer = 0
    /\ sink_hist = [failed_writes |-> 0, flush |-> NoFlush, failed_probe_at |-> -1,
                    early |-> FALSE, handoff |-> NoHandoff]
    /\ npoints = 0

\* reboot_key of rule_tasks._execute_reboot_action and of
\* TaskManager._execute_reboot_action
RebootKeys == {"system:reboot", "system_reboot_scheduled"}

\* expire(reboot_key, 60)
reboot_expire == 60

NoKey == [set |-> FALSE, expires |-> -1]

\* What Redis does in a reboot action: every command succeeds, or the named
\* command raises
RedisOutcomes == {"ok", "exists_fails", "set_fails", "expire_fails"}

RebootIdle ==
    /\ redis_keys = [k \in RebootKeys |-> NoKey]
    /\ watchdog = [writes |-> 0, last_write |-> -1, rewritten |-> FALSE]
    /\ nreboots = 0

\* Listeners of configuration changes, and what a listener does when it is
\* called: it returns, it raises, it is still running after the 5 s of its
\* deadline, or it changes the document it was given and returns
Listeners == {"l1", "l2"}

Behaviours == {"ok", "raises", "timeout", "mutates"}

\* The sections a listener registers for: none (every change), or a list
SectionLists == {<<>>, <<"relays">>}

NoNotification ==
    [listening |-> {}, invoked |-> {}, given |-> {}, failed |-> {},
     failed_before |-> {}, dropped |-> {}, raised |-> FALSE,
     effective_changed |-> FALSE]

ListenersIdle ==
    /\ change_listeners = <<>>
    /\ section_listeners = [section \in SectionKeys |-> <<>>]
    /\ notify_hist = NoNotification

\* Consecutive failed reads after which the status reports a sensor unhealthy
UnhealthyAfter == 3

\* How a read of a sensor ends: with data, or with one of the failures
ReadFailures == {"init_failed", "incomplete", "timeout", "exception"}

HealthIdle ==
    /\ sensor_health = [r \in Relays |-> "absent"]
    /\ failed_reads = [r \in Relays |-> 0]

\* The routes of app/api/relay.py that wait for the result of a task, and the
\* timeout each gives to task.get, in seconds; -1 stands for timeout=None
WaitingRoutes == {"on", "off", "pulse", "relays_state", "enabled_state"}

task_get_timeout ==
    [route \in WaitingRoutes |->
        CASE route \in {"on", "off"} -> 10
          [] route = "pulse" -> -1
          [] OTHER -> 5]

\* The task every route sends first
route_task ==
    [route \in WaitingRoutes |->
        CASE route \in {"on", "off"} -> "set_relay_state"
          [] route = "pulse" -> "get_relay_state"
          [] OTHER -> "get_all_relay_states"]

\* The instants at which a wait is looked at: the timeouts of the routes
WaitInstants == {task_get_timeout[route] : route \in WaitingRoutes} \ {-1}

NotWaiting == [pc |-> "idle", waited |-> 0, code |-> 0]

AwaitIdle == awaiting = [route \in WaitingRoutes |-> NotWaiting]

\* The live-stream connections: one of websocket_handler, streaming the
\* data source relay_1, and one of all_relay_states_websocket
Connections == {"relay_1", "all_relay_states"}

\* What websocket.send_json does: it returns, or it raises the RuntimeError
\* "... close message has been sent", another RuntimeError, or another exception
SendOutcomes == {"sent", "close_sent", "runtime_error", "error"}

\* What task.get of get_all_relay_states gives the polling loop
StateResults == {"states", "empty", "raises"}

NotConnected == [pc |-> "new", peer |-> "open", frames |-> 0, send_failed |-> FALSE]

StreamsIdle ==
    /\ active_connections = {}
    /\ streams = [c \in Connections |-> NotConnected]
    /\ latest_sensor_data = {}

\* The ids a relay command can name: the relays of env.HARDWARE_CONFIG and
\* one that no hardware has
RelayIds == Relays \cup {"relay_9"}

NoCommand ==
    [route |-> "none", relay_id |-> "none", code |-> 0,
     before |-> [r \in Relays |-> "INACTIVE"],
     after |-> [r \in Relays |-> "INACTIVE"]]

CommandIdle ==
    /\ configured = Relays
    /\ command = NoCommand

\* A route: method, path as its segments with the prefix of the router,
\* endpoint, the dependency of the decorator and whether the endpoint has a
\* body parameter
Route(method, path, endpoint, dependency, body) ==
    [method |-> method, path |-> path, endpoint |-> endpoint,
     dependency |-> dependency, body |-> body]

\* The routes of app/api/configuration.py in the order of their declaration
ConfigRoutes ==
    <<Route("GET", <<"config", "health">>, "health_check", "none", FALSE),
      Route("GET", <<"config">>, "get_full_config", "is_authenticated", FALSE),
      Route("GET", <<"config", "{config_section}">>, "get_config_section",
            "is_authenticated", FALSE),
      Route("POST", <<"config">>, "update_custom_config", "admin", TRUE),
      Route("POST", <<"config", "{config_section}">>, "update_config_section",
            "admin", TRUE),
      Route("POST", <<"config", "revert">>, "revert_to_defaults", "admin", FALSE)>>

\* The log and reboot routes of app/api/device.py
DeviceRoutes ==
    <<Route("GET", <<"device", "logs", "camera">>, "get_camera_log", "admin", FALSE),
      Route("GET", <<"device", "logs", "router">>, "get_router_log", "admin", FALSE),
      Route("POST", <<"device", "reboot">>, "reboot_system", "admin", FALSE)>>

\* app/main.py includes the configuration router before the device router
Routes == ConfigRoutes \o DeviceRoutes

PathParameters == {"{config_section}"}

\* What a request carries as Authorization: nothing, a token that does not
\* decode, a token without a role, or a token of a user or of an admin
Credentials == {"none", "invalid", "incomplete", "user", "admin"}

NoBody == [present |-> FALSE, json |-> EmptyDoc]

Body(json) == [present |-> TRUE, json |-> json]

Request(method, path, body) == [method |-> method, path |-> path, body |-> body]

\* The requests considered
ApiRequests ==
    {Request("POST", <<"config">>, Body([general |-> [system_name |-> "Site 7"]])),
     Request("POST", <<"config", "general">>, Body([system_name |-> "Site 7"])),
     Request("POST", <<"config", "revert">>, NoBody),
     Request("POST", <<"config", "revert">>, Body(EmptyDoc)),
     Request("GET", <<"config">>, NoBody),
     Request("GET", <<"device", "logs", "camera">>, NoBody),
     Request("POST", <<"device", "reboot">>, NoBody)}

BackgroundTask(task, section, new_config) ==
    [task |-> task, section |-> section, new_config |-> new_config]

NoAnswer ==
    [method |-> "none", path |-> <<>>, credentials |-> "none", code |-> 0,
     endpoint |-> "none", changed |-> FALSE, served |-> FALSE,
     document |-> EmptyDoc, after_revert |-> FALSE]

ApiIdle ==
    /\ background_tasks = <<>>
    /\ api_answer = NoAnswer
    /\ config_posts = "none"
    /\ nreq = 0

(***************************************************************************)
(* The configuration as the worker's tasks read it: data.                  *)
(***************************************************************************)
\* The relays and the rules of one configuration document
AppConfig(relay_3, operator) ==
    [relays |-> [r \in Relays |-> IF r = "relay_3" THEN relay_3
                                  ELSE RelayConfig(TRUE, MonFri2200to0600)],
     operator |-> operator]

\* app/config/config.json
DefaultAppConfig == AppConfig(RelayConfig(TRUE, NoSchedule), ">")

\* The documents that POST /config/ is given
NewConfigs ==
    {AppConfig(RelayConfig(TRUE, NoSchedule), ">"),
     AppConfig(RelayConfig(TRUE, MonFri0800to1700), "<")}

NoReload == [completed |-> FALSE, updated_to |-> "none", read_after |-> FALSE]

ReloadIdle ==
    /\ worker_loaded = TRUE
    /\ config_file = <<>>
    /\ api_config = DefaultAppConfig
    /\ reload_hist = NoReload

\* SimpleConfigManager._load_config: the custom file if there is one, the
\* default file otherwise
load_config == IF config_file # <<>> THEN config_file[1] ELSE DefaultAppConfig

\* SimpleConfigManager.get_config: _config, loaded if it is None
get_config ==
    IF worker_loaded THEN [relays |-> config_relays, operator |-> rule_op]
    ELSE load_config

\* What get_config leaves behind: _config is set, and a task has read the
\* configuration
config_read ==
    /\ worker_loaded' = TRUE
    /\ config_relays' = get_config.relays
    /\ rule_op' = get_config.operator
    /\ reload_hist' = [reload_hist EXCEPT !.read_after = reload_hist.completed]

\* What the store does to a query
QueryOutcomes == {"ok", "ping_fails", "ping_raises", "query_fails"}

NoQuery == [called |-> FALSE, outcome |-> "none", refused |-> FALSE, opened |-> 0,
            closed |-> 0]

QueryIdle ==
    /\ reader_manager =
           [failure_count |-> 0, last_failure_time |-> 0, circuit_open |-> FALSE]
    /\ open_clients = 0
    /\ query_hist = NoQuery
    /\ nqueries = 0

\* The coroutines that call the manager: background tasks of the routes
Coroutines == {"c1", "c2", "c3"}

\* update_custom_config and revert_to_defaults
LockedOperations == {"update", "revert"}

Unlocked == [locked |-> FALSE, owner |-> "none", waiters |-> <<>>]

NotCalling == [op |-> "none", pc |-> "idle", arg |-> EmptyDoc]

LockIdle ==
    /\ cm_lock = Unlocked
    /\ coroutines = [c \in Coroutines |-> NotCalling]
    /\ lock_hist = [stolen |-> FALSE]
    /\ nops = 0

ServicesIdle ==
    /\ time = 0
    /\ LockIdle
    /\ QueryIdle
    /\ ReloadIdle
    /\ AwaitIdle
    /\ StreamsIdle
    /\ CommandIdle
    /\ ApiIdle
    /\ SinkIdle
    /\ RebootIdle
    /\ ListenersIdle
    /\ HealthIdle

Init ==
    /\ InitRelays([Relays -> Levels])
    /\ rule_op = ">"
    /\ redis_client = TRUE
    /\ RulesIdle
    /\ SchedIdle
    /\ CfgIdle
    /\ ServicesIdle

InitRules ==
    /\ InitRelays([Relays -> {"INACTIVE"}])
    /\ rule_op \in Operators
    /\ redis_client \in BOOLEAN
    /\ RulesIdle
    /\ SchedIdle
    /\ CfgIdle
    /\ ServicesIdle

\* Every schedule and every instant that _should_be_on is applied to
InitShouldBeOn ==
    /\ InitRelays([Relays -> {"INACTIVE"}])
    /\ rule_op = ">"
    /\ redis_client = TRUE
    /\ RulesIdle
    /\ now \in Instants
    /\ \E enabled \in BOOLEAN, on_time \in Times \cup {<<>>}, off_time \in Times \cup {<<>>},
          days_mask \in Masks :
          config_relays =
              [r \in Relays |->
                  IF r = "relay_3"
                  THEN RelayConfig(TRUE, Schedule(TRUE, enabled, on_time, off_time, days_mask))
                  ELSE RelayConfig(TRUE, NoSchedule)]
    /\ checked = [r \in Relays |-> NoCheck]
    /\ nticks = 0
    /\ CfgIdle
    /\ ServicesIdle

\* The configurations of the schedule check: relay_1 follows the overnight
\* schedule, relay_3 is enabled or not and has no schedule, a disabled one or
\* an enabled one
DaySchedule(enabled) == Schedule(TRUE, enabled, strftime(6, 0), strftime(22, 0), 254)

InitSched ==
    /\ InitRelays([Relays -> {"INACTIVE"}])
    /\ rule_op = ">"
    /\ redis_client = TRUE
    /\ RulesIdle
    /\ now \in TickInstants
    /\ \E enabled \in BOOLEAN,
          schedule \in {NoSchedule, DaySchedule(FALSE), DaySchedule(TRUE),
                        MonFri0800to1700} :
          config_relays =
              [r \in Relays |->
                  IF r = "relay_3" THEN RelayConfig(enabled, schedule)
                  ELSE RelayConfig(TRUE, MonFri2200to0600)]
    /\ checked = [r \in Relays |-> NoCheck]
    /\ nticks = 0
    /\ CfgIdle
    /\ ServicesIdle

\* _evaluate_condition
evaluate_condition(value, operator, threshold) ==
    CASE operator = ">" -> value > threshold
      [] operator = "<" -> value < threshold
      [] operator = ">=" -> value >= threshold
      [] operator = "<=" -> value <= threshold
      [] operator = "==" -> value = threshold
      [] operator = "!=" -> value # threshold
      [] OTHER -> FALSE

\* get_rule_state: Redis first when connected, the local dict when the read
\* raises or there is no client
get_rule_state(st, task_id, read_ok) ==
    IF redis_client /\ read_ok
    THEN st.redis[task_id] = "1"
    ELSE st.local[task_id] = 1

\* set_rule_state: the local dict always, then Redis if the write goes through
set_rule_state(st, task_id, state, write_ok) ==
    [st EXCEPT !.local[task_id] = IF state THEN 1 ELSE 0,
               !.redis[task_id] = IF redis_client /\ write_ok
                                  THEN (IF state THEN "1" ELSE "0") ELSE @]

\* The messages execute_action.delay hands to the broker for one rule: the
\* first n actions, the call for action n + 1 having raised
Dispatched(task, n) ==
    [i \in 1..n |-> [Msg("execute_action", task.source, FALSE, "rule", -1)
                     EXCEPT !.rule = task.id, !.action = i]]

(***************************************************************************)
(* API routes of app/api/relay.py: each submits task messages to the       *)
(* broker.                                                                 *)
(***************************************************************************)
Enqueue(m) == queue' = Append(queue, m)

\* POST /io/{id}/state/on
turn_relay_on(r) ==
    /\ ncmd < MaxCmds
    /\ Enqueue(Msg("set_relay_state", r, TRUE, "api", -1))
    /\ ncmd' = ncmd + 1
    /\ UNCHANGED <<rule_vars, sched_vars, cfg_vars, time, sink_vars, reboot_vars, listener_vars, health_vars, awaiting, reload_vars, query_vars, lock_vars, api_vars, command_vars, stream_vars, level, lock, eta, run, last, lastget, gateSeq, lastok, routes, faults>>

\* POST /io/{id}/state/off
turn_relay_off(r) ==
    /\ ncmd < MaxCmds
    /\ Enqueue(Msg("set_relay_state", r, FALSE, "api", -1))
    /\ ncmd' = ncmd + 1
    /\ UNCHANGED <<rule_vars, sched_vars, cfg_vars, time, sink_vars, reboot_vars, listener_vars, health_vars, awaiting, reload_vars, query_vars, lock_vars, api_vars, command_vars, stream_vars, level, lock, eta, run, last, lastget, gateSeq, lastok, routes, faults>>

\* POST /io/{id}/state/pulse, first half: ask the worker for the state
pulse_route_read(r) ==
    /\ ncmd < MaxCmds
    /\ Enqueue(Msg("get_relay_state", r, FALSE, "pulse_route", -1))
    /\ ncmd' = ncmd + 1
    /\ UNCHANGED <<rule_vars, sched_vars, cfg_vars, time, sink_vars, reboot_vars, listener_vars, health_vars, awaiting, reload_vars, query_vars, lock_vars, api_vars, command_vars, stream_vars, level, lock, eta, run, last, lastget, gateSeq, lastok, routes, faults>>

\* POST /io/{id}/state/pulse, second half: submit the pulse, answer with the
\* state that was read
pulse_route_submit ==
    \E rt \in routes :
        /\ Enqueue(Msg("pulse_relay", rt.relay, FALSE, "api", rt.state))
        /\ routes' = routes \ {rt}
        /\ UNCHANGED <<rule_vars, sched_vars, cfg_vars, time, sink_vars, reboot_vars, listener_vars, health_vars, awaiting, reload_vars, query_vars, lock_vars, api_vars, command_vars, stream_vars, level, lock, eta, run, last, lastget, gateSeq, lastok, ncmd, faults>>

\* The answer of the on and off routes to the task's result
turn_relay_response(result) ==
    IF result.status # "success"
    THEN [code |-> 500, state |-> -1]
    ELSE [code |-> 200, state |-> result.state]

(***************************************************************************)
(* The Celery worker. A free slot runs the head of the queue, or a         *)
(* held-back message whose countdown has run out; the countdowns of one    *)
(* relay (its pulse_time) run out in the order they were started.          *)
(***************************************************************************)
Remove(seq, i) == [j \in 1..(Len(seq) - 1) |-> IF j < i THEN seq[j] ELSE seq[j + 1]]

Due == {i \in 1..Len(eta) : \A j \in 1..(i - 1) : eta[j].relay # eta[i].relay}

\* Slot w is free and takes message m: src 0 is the queue, src i > 0 is eta[i]
worker_take(w, src) ==
    /\ run[w].pc = "idle"
    /\ IF src = 0
       THEN /\ queue # <<>>
            /\ queue' = Tail(queue)
            /\ eta' = eta
       ELSE /\ src \in Due
            /\ eta' = Remove(eta, src)
            /\ queue' = queue

Taken(src) == IF src = 0 THEN Head(queue) ELSE eta[src]

Sources == {0} \cup (1..Len(eta))

\* get_relay_state task
get_relay_state(w) ==
    \E src \in Sources :
    /\ worker_take(w, src)
    /\ LET m == Taken(src) IN
       /\ m.task = "get_relay_state"
       /\ lastget' = [lastget EXCEPT ![m.relay] = current_state(m.relay)]
       /\ routes' = IF m.origin = "pulse_route"
                    THEN routes \cup {[relay |-> m.relay, state |-> current_state(m.relay)]}
                    ELSE routes
    /\ UNCHANGED <<rule_vars, sched_vars, cfg_vars, time, sink_vars, reboot_vars, listener_vars, health_vars, awaiting, reload_vars, query_vars, lock_vars, api_vars, command_vars, stream_vars, level, lock, run, last, gateSeq, lastok, ncmd, faults>>

\* set_relay_state: the logical state that the flag selects
Mut_set_relay_state_target(state) == 1

set_relay_state_target(state) == IF state THEN 1 ELSE 0

\* set_relay_state -> RelayControl.turn_on / turn_off: async with self._lock
turn_on_off(w) ==
    \E src \in Sources :
    /\ worker_take(w, src)
    /\ LET m == Taken(src) IN
       /\ m.task = "set_relay_state"
       /\ ~lock[m.relay]
       /\ lock' = [lock EXCEPT ![m.relay] = TRUE]
       /\ gateSeq' = [gateSeq EXCEPT ![m.relay] = @ + 1]
       /\ run' = [run EXCEPT ![w] = [pc |-> "write", msg |-> m,
                                     cur |-> current_state(m.relay),
                                     new |-> set_relay_state_target(m.state),
                                     seq |-> gateSeq[m.relay] + 1]]
    /\ UNCHANGED <<rule_vars, sched_vars, cfg_vars, time, sink_vars, reboot_vars, listener_vars, health_vars, awaiting, reload_vars, query_vars, lock_vars, api_vars, command_vars, stream_vars, level, last, lastget, lastok, routes, ncmd, faults>>

\* pulse_relay -> RelayControl.toggle: reads the state, takes no lock
toggle(w) ==
    \E src \in Sources :
    /\ worker_take(w, src)
    /\ LET m == Taken(src) IN
       /\ m.task = "pulse_relay"
       /\ gateSeq' = [gateSeq EXCEPT ![m.relay] = @ + 1]
       /\ run' = [run EXCEPT ![w] = [pc |-> "write", msg |-> m,
                                     cur |-> current_state(m.relay),
                                     new |-> IF current_state(m.relay) = 0 THEN 1 ELSE 0,
                                     seq |-> gateSeq[m.relay] + 1]]
    /\ UNCHANGED <<rule_vars, sched_vars, cfg_vars, time, sink_vars, reboot_vars, listener_vars, health_vars, awaiting, reload_vars, query_vars, lock_vars, api_vars, command_vars, stream_vars, level, lock, last, lastget, lastok, routes, ncmd, faults>>

\* RelayControl._change_state: request.set_values takes effect, or the line
\* keeps its level, or the call raises; then the read-back decides the result.
Outcomes == {"ok", "stuck", "raise"}

written(r, new_logical_state, outcome) ==
    IF outcome = "ok"
    THEN logical_to_hardware_value(HARDWARE_CONFIG[r], new_logical_state)
    ELSE level[r]

Mut_change_state(r, new_logical_state, outcome) ==
    [status |-> IF outcome = "raise" THEN "error" ELSE "success",
     state |-> new_logical_state]

change_state(r, new_logical_state, outcome) ==
    LET confirmed_state ==
            hardware_to_logical_state(HARDWARE_CONFIG[r],
                                      written(r, new_logical_state, outcome)) IN
    IF outcome = "raise"
    THEN [status |-> "error", state |-> confirmed_state]
    ELSE [status |-> IF confirmed_state = new_logical_state THEN "success" ELSE "error",
          state |-> confirmed_state]

hardware_write(r, new_logical_state, outcome) ==
    /\ outcome # "ok" => faults < MaxFaults
    /\ faults' = IF outcome = "ok" THEN faults ELSE faults + 1
    /\ level' = [level EXCEPT ![r] = written(r, new_logical_state, outcome)]

\* History: the held-back reverse steps of relay r learn of a command applied
\* to r, and of whether it changed r's state.
Noted(r, changed) ==
    [i \in 1..Len(eta) |->
        IF eta[i].relay = r
        THEN [eta[i] EXCEPT !.touched = TRUE, !.moved = @ \/ changed]
        ELSE eta[i]]

Completed(t, result, initial_state) ==
    [msg |-> t.msg, before |-> t.cur, req |-> t.new, status |-> result.status,
     state |-> result.state, initial_state |-> initial_state, seq |-> t.seq]

\* turn_on / turn_off change the state and release the lock; set_relay_state
\* returns the result
set_relay_state(w) ==
    \E outcome \in Outcomes :
    LET t == run[w]
        r == t.msg.relay
        result == change_state(r, t.new, outcome) IN
    /\ t.pc = "write"
    /\ t.msg.task = "set_relay_state"
    /\ hardware_write(r, t.new, outcome)
    /\ lock' = [lock EXCEPT ![r] = FALSE]
    /\ last' = [last EXCEPT ![r] = Completed(t, result, -1)]
    /\ lastok' = IF result.status = "success"
                 THEN [lastok EXCEPT ![r] = IF t.msg.state THEN 1 ELSE 0]
                 ELSE lastok
    /\ lastget' = [lastget EXCEPT ![r] = -1]
    /\ eta' = Noted(r, written(r, t.new, outcome) # level[r])
    /\ run' = [run EXCEPT ![w] = Idle]
    /\ UNCHANGED <<rule_vars, sched_vars, cfg_vars, time, sink_vars, reboot_vars, listener_vars, health_vars, awaiting, reload_vars, query_vars, lock_vars, api_vars, command_vars, stream_vars, queue, gateSeq, routes, ncmd>>

\* History: the state that relay r had before the earliest pulse whose reverse
\* step is still held back, -1 when no reverse step of r is held back
Original(r) ==
    LET held == {i \in DOMAIN eta : eta[i].relay = r /\ eta[i].origin = "pulse"} IN
    IF held = {} THEN -1
    ELSE LET first == eta[CHOOSE i \in held : \A j \in held : i <= j] IN
         IF first.original >= 0 THEN first.original ELSE first.pre

\* pulse_relay: the flag of the set_relay_state that is to undo the toggle
Mut_toggle_back_state(initial_state) == initial_state = 1

toggle_back_state(initial_state) == initial_state = 0

\* pulse_relay: toggle() changes the state, then the reverse set_relay_state
\* is scheduled with a countdown and the result reports initial_state
pulse_relay(w) ==
    \E outcome \in Outcomes :
    LET t == run[w]
        r == t.msg.relay
        initial_result == change_state(r, t.new, outcome)
        initial_state == initial_result.state
        toggle_back == [Msg("set_relay_state", r, toggle_back_state(initial_state),
                            "pulse", -1)
                        EXCEPT !.pre = t.cur, !.post = initial_state,
                               !.original = Original(r)] IN
    /\ t.pc = "write"
    /\ t.msg.task = "pulse_relay"
    /\ hardware_write(r, t.new, outcome)
    /\ eta' = Append(Noted(r, written(r, t.new, outcome) # level[r]), toggle_back)
    /\ last' = [last EXCEPT ![r] = Completed(t, initial_result, initial_state)]
    /\ lastok' = IF initial_result.status = "success"
                 THEN [lastok EXCEPT ![r] = 1 - t.cur]
                 ELSE lastok
    /\ lastget' = [lastget EXCEPT ![r] = -1]
    /\ run' = [run EXCEPT ![w] = Idle]
    /\ UNCHANGED <<rule_vars, sched_vars, cfg_vars, time, sink_vars, reboot_vars, listener_vars, health_vars, awaiting, reload_vars, query_vars, lock_vars, api_vars, command_vars, stream_vars, lock, queue, gateSeq, routes, ncmd>>

(***************************************************************************)
(* Rule tasks.                                                             *)
(***************************************************************************)
Pending == Len(SelectSeq(queue, LAMBDA m : m.task = "evaluate_rules"))

\* SensorDataCollector._read_relay_sensor: evaluate_rules.delay(relay_id, data)
sensor_sample(r, v) ==
    /\ nsamples < MaxSamples
    /\ Pending < MaxPending
    /\ nsamples' = nsamples + 1
    /\ Enqueue([Msg("evaluate_rules", r, FALSE, "sensor", -1) EXCEPT !.value = v])
    /\ UNCHANGED <<relay_vars, sched_vars, cfg_vars, time, sink_vars, reboot_vars, listener_vars, health_vars, awaiting, reload_vars, query_vars, lock_vars, api_vars, command_vars, stream_vars, rule_op, redis_client, redis_state, local_rule_states,
                   redis_faults, hist>>

\* History of one evaluation of a rule
Recorded(h, v, condition_met, edge) ==
    [evals |-> h.evals + 1,
     example |-> IF h.example = h.evals /\ h.evals < Len(Example)
                    /\ v = Example[h.evals + 1]
                 THEN h.example + 1 ELSE h.example,
     fired |-> IF edge THEN h.fired + 1 ELSE h.fired,
     latched |-> condition_met,
     wrong |-> h.wrong \/ (edge # (condition_met /\ ~h.latched)),
     refired |-> h.refired \/ (edge /\ h.latched)]

\* The body of the loop of evaluate_rules for one rule. ch says which of the
\* Redis commands of this evaluation raise and how many of the rule's actions
\* reach the broker; st.used counts the failures that happened.
evaluate_rule(task, data, st, ch) ==
    IF task.field \notin DOMAIN data
    THEN st
    ELSE
    LET value == data[task.field]
        id == task.id
        condition_met == evaluate_condition(value, task.operator, task.value)
        read_ok == id \notin ch.read_fail
        write_ok == id \notin ch.write_fail
        previously_triggered == get_rule_state(st, id, read_ok)
        edge == condition_met /\ ~previously_triggered
        clear == ~condition_met /\ previously_triggered
        n == IF id \in DOMAIN ch.sent THEN ch.sent[id] ELSE Len(task.actions)
        st1 == IF edge THEN set_rule_state(st, id, TRUE, write_ok)
               ELSE IF clear THEN set_rule_state(st, id, FALSE, write_ok)
               ELSE st
    IN  [st1 EXCEPT
            !.out = IF edge THEN @ \o Dispatched(task, n) ELSE @,
            !.hist[id] = Recorded(@, value, condition_met, edge),
            !.used = @ + (IF redis_client /\ ~read_ok THEN 1 ELSE 0)
                       + (IF redis_client /\ ~write_ok /\ (edge \/ clear) THEN 1 ELSE 0)
                       + (IF edge /\ n < Len(task.actions) THEN 1 ELSE 0)]

RECURSIVE evaluate_loop(_, _, _, _)
evaluate_loop(ts, data, st, ch) ==
    IF ts = <<>> THEN st
    ELSE evaluate_loop(Tail(ts), data, evaluate_rule(Head(ts), data, st, ch), ch)

Chosen(ch) ==
    Cardinality(ch.read_fail) + Cardinality(ch.write_fail)
        + Cardinality({id \in DOMAIN ch.sent : TRUE})

\* evaluate_rules task
evaluate_rules(w) ==
    /\ run[w].pc = "idle"
    /\ queue # <<>>
    /\ LET m == Head(queue)
           data == SampleData(m.value)
           rules == SelectSeq(config_tasks(get_config.operator),
                              LAMBDA t : t.source = m.relay)
           live == {rules[i].id : i \in {j \in DOMAIN rules : rules[j].field \in DOMAIN data}}
           st0 == [redis |-> redis_state, local |-> local_rule_states, hist |-> hist,
                   out |-> <<>>, used |-> 0]
       IN
       /\ m.task = "evaluate_rules"
       /\ config_read
       /\ \E read_fail \in SUBSET live, write_fail \in SUBSET live, short \in SUBSET live :
          \E sent \in [short -> 0..1] :
            LET ch == [read_fail |-> read_fail, write_fail |-> write_fail, sent |-> sent]
                st == evaluate_loop(rules, data, st0, ch)
            IN
            /\ st.used = Chosen(ch)
            /\ redis_faults + st.used <= MaxRedisFaults
            /\ redis_faults' = redis_faults + st.used
            /\ redis_state' = st.redis
            /\ local_rule_states' = st.local
            /\ hist' = st.hist
            /\ queue' = Tail(queue) \o st.out
    /\ UNCHANGED <<relay_vars, now, checked, nticks, cfg_vars, time, sink_vars, reboot_vars,
                   listener_vars, health_vars, awaiting, query_vars, lock_vars, config_file, api_config, api_vars,
                   command_vars, stream_vars, redis_client, nsamples>>

\* _execute_io_action: the relay task that the action's state selects
io_action(action) ==
    IF action.state = "on" THEN <<Msg("set_relay_state", action.target, TRUE, "rule", -1)>>
    ELSE IF action.state = "off"
    THEN <<Msg("set_relay_state", action.target, FALSE, "rule", -1)>>
    ELSE IF action.state = "pulse"
    THEN <<Msg("pulse_relay", action.target, FALSE, "rule", -1)>>
    ELSE <<>>

\* execute_action task: an io action hands a relay task to the broker, or the
\* hand-over raises and the action reports an error; a log action writes its
\* line. Neither reads nor writes the rule's state.
execute_action(w) ==
    /\ run[w].pc = "idle"
    /\ queue # <<>>
    /\ LET m == Head(queue) IN
       /\ m.task = "execute_action"
       /\ \E i \in DOMAIN tasks :
            /\ tasks[i].id = m.rule
            /\ LET action == tasks[i].actions[m.action] IN
               \E delivered \in BOOLEAN :
                 /\ ~delivered => action.type = "io" /\ redis_faults < MaxRedisFaults
                 /\ redis_faults' = IF delivered THEN redis_faults ELSE redis_faults + 1
                 /\ queue' = IF action.type = "io" /\ delivered
                             THEN Tail(queue) \o io_action(action)
                             ELSE Tail(queue)
    /\ UNCHANGED <<relay_vars, sched_vars, cfg_vars, time, sink_vars, reboot_vars, listener_vars, health_vars, awaiting, reload_vars, query_vars, lock_vars, api_vars, command_vars, stream_vars, rule_op, redis_client, redis_state, local_rule_states,
                   nsamples, hist>>

NextRules ==
    \/ \E v \in Values : sensor_sample("relay_3", v)
    \/ \E w \in Slots : evaluate_rules(w)
    \/ \E w \in Slots : execute_action(w)
    \/ \E w \in Slots : turn_on_off(w)
    \/ \E w \in Slots : set_relay_state(w)

SpecRules == InitRules /\ [][NextRules]_vars

(***************************************************************************)
(* The periodic sensor run: Celery beat publishes read_all_sensors, the    *)
(* worker runs it, and the run hands every sample to evaluate_rules.       *)
(***************************************************************************)
\* beat_schedule: read_all_sensors is published every 5 seconds, whatever
\* the worker is doing; a message of an earlier period that still waits has
\* expired by then (expires: 4)
beat_read_all_sensors ==
    /\ nsamples < MaxRuns
    /\ nsamples' = nsamples + 1
    /\ queue' = Append([i \in DOMAIN queue |->
                           IF queue[i].task = "read_all_sensors"
                           THEN [queue[i] EXCEPT !.origin = "expired"]
                           ELSE queue[i]],
                       Msg("read_all_sensors", "none", FALSE, "beat", -1))
    /\ UNCHANGED <<relay_vars, sched_vars, cfg_vars, time, sink_vars, reboot_vars,
                   listener_vars, health_vars, awaiting, reload_vars, query_vars, lock_vars, api_vars, command_vars,
                   stream_vars, rule_op, redis_client, redis_state, local_rule_states,
                   redis_faults, hist>>

\* The worker takes read_all_sensors and starts collect_all_data, unless the
\* message has expired (expires: 4) and is dropped
read_all_sensors(w) ==
    /\ run[w].pc = "idle"
    /\ queue # <<>>
    /\ Head(queue).task = "read_all_sensors"
    /\ queue' = Tail(queue)
    /\ \E expired \in BOOLEAN :
          /\ Head(queue).origin = "expired" => expired
          /\ run' = IF expired THEN run
                    ELSE [run EXCEPT ![w] = [Idle EXCEPT !.pc = "read",
                                                         !.msg = Head(queue)]]
    /\ UNCHANGED <<rule_vars, sched_vars, cfg_vars, time, sink_vars, reboot_vars, listener_vars, health_vars, awaiting, reload_vars, query_vars, lock_vars, api_vars, command_vars, stream_vars, level, lock, eta, last, lastget, gateSeq, lastok, routes, ncmd, faults>>

\* _read_relay_sensor inside the run: after the read and the hand-over of the
\* point to the writer the sample goes to evaluate_rules.delay, or the read
\* fails and there is no sample; the run ends
read_relay_sensor_sample(w, r, v, success) ==
    /\ run[w].pc = "read"
    /\ run' = [run EXCEPT ![w] = Idle]
    /\ IF success
       THEN Enqueue([Msg("evaluate_rules", r, FALSE, "sensor", -1) EXCEPT !.value = v])
       ELSE UNCHANGED queue
    /\ UNCHANGED <<rule_vars, sched_vars, cfg_vars, time, sink_vars, reboot_vars, listener_vars, health_vars, awaiting, reload_vars, query_vars, lock_vars, api_vars, command_vars, stream_vars, level, lock, eta, last, lastget, gateSeq, lastok, routes, ncmd, faults>>

InitRuns ==
    /\ InitRelays([Relays -> {"INACTIVE"}])
    /\ rule_op = ">"
    /\ redis_client \in BOOLEAN
    /\ RulesIdle
    /\ SchedIdle
    /\ CfgIdle
    /\ ServicesIdle

NextRuns ==
    \/ beat_read_all_sensors
    \/ \E w \in Slots : read_all_sensors(w)
    \/ \E w \in Slots, v \in Values, success \in BOOLEAN :
          read_relay_sensor_sample(w, "relay_3", v, success)
    \/ \E w \in Slots : evaluate_rules(w)
    \/ \E w \in Slots : execute_action(w)
    \/ \E w \in Slots : turn_on_off(w)
    \/ \E w \in Slots : set_relay_state(w)

SpecRuns == InitRuns /\ [][NextRuns]_vars

(***************************************************************************)
(* The schedule check.                                                     *)
(***************************************************************************)
\* One application of _should_be_on to the relay's configuration
should_be_on_call(r) ==
    /\ checked[r].status = "none"
    /\ checked' = [checked EXCEPT ![r] =
                      [status |-> "checked", should |-> should_be_on(config_relays[r], now),
                       is_on |-> current_state(r) = 1, issued |-> "none", at |-> now,
                       seq |-> gateSeq[r]]]
    /\ UNCHANGED <<queue, relay_vars, rule_vars, cfg_vars, time, sink_vars, reboot_vars, listener_vars, health_vars, awaiting, reload_vars, query_vars, lock_vars, api_vars, command_vars, stream_vars, now, config_relays, nticks>>

NextShouldBeOn == \E r \in Relays : should_be_on_call(r)

SpecShouldBeOn == InitShouldBeOn /\ [][NextShouldBeOn]_vars

\* Time passes
clock(t) ==
    /\ t # now
    /\ now' = t
    /\ UNCHANGED <<queue, relay_vars, rule_vars, cfg_vars, time, sink_vars, reboot_vars, listener_vars, health_vars, awaiting, reload_vars, query_vars, lock_vars, api_vars, command_vars, stream_vars, config_relays, checked, nticks>>

\* Celery beat, check-schedules-every-minute: a message that expires before
\* the next one is sent
beat_tick ==
    /\ nticks < MaxTicks
    /\ \A i \in DOMAIN queue : queue[i].task # "check_schedules"
    /\ nticks' = nticks + 1
    /\ Enqueue(Msg("check_schedules", "none", FALSE, "beat", -1))
    /\ UNCHANGED <<relay_vars, rule_vars, cfg_vars, time, sink_vars, reboot_vars, listener_vars, health_vars, awaiting, reload_vars, query_vars, lock_vars, api_vars, command_vars, stream_vars, now, config_relays, checked>>

\* check_schedules: the relays that the loop passes over
Mut_schedule_skipped(relay) ==
    ~relay.schedule.present \/ ~relay.schedule.enabled

schedule_skipped(relay) ==
    ~relay.enabled \/ ~relay.schedule.present \/ ~relay.schedule.enabled

\* check_schedules: "action_needed"
Mut_action_needed(should, is_on) == should

action_needed(should, is_on) == should # is_on

\* check_schedules: the body of the loop for relay r; read_ok is whether
\* controller.state could read the line
check_relay(r, read_ok) ==
    LET relay == get_config.relays[r]
        should == should_be_on(relay, now)
        is_on == current_state(r) = 1
    IN  IF schedule_skipped(relay)
        THEN [NoCheck EXCEPT !.status = "skipped", !.at = now, !.seq = gateSeq[r]]
        ELSE IF ~read_ok
        THEN [status |-> "error", should |-> should, is_on |-> FALSE, issued |-> "none",
              at |-> now, seq |-> gateSeq[r]]
        ELSE [status |-> "checked", should |-> should, is_on |-> is_on,
              issued |-> IF action_needed(should, is_on)
                         THEN (IF should THEN "on" ELSE "off")
                         ELSE "none",
              at |-> now, seq |-> gateSeq[r]]

\* The set_relay_state.delay calls of one check, in the order of config.relays
RECURSIVE schedule_commands(_, _)
schedule_commands(rs, found) ==
    IF rs = <<>> THEN <<>>
    ELSE (IF found[Head(rs)].issued = "none" THEN <<>>
          ELSE <<Msg("set_relay_state", Head(rs), found[Head(rs)].issued = "on",
                     "schedule", -1)>>)
         \o schedule_commands(Tail(rs), found)

\* check_schedules task
check_schedules(w) ==
    /\ run[w].pc = "idle"
    /\ queue # <<>>
    /\ Head(queue).task = "check_schedules"
    /\ config_read
    /\ \E unread \in SUBSET {r \in Relays : ~schedule_skipped(get_config.relays[r])} :
         LET found == [r \in Relays |-> check_relay(r, r \notin unread)] IN
         /\ faults + Cardinality(unread) <= MaxFaults
         /\ faults' = faults + Cardinality(unread)
         /\ checked' = found
         /\ queue' = Tail(queue) \o schedule_commands(RelayOrder, found)
    /\ UNCHANGED <<level, lock, eta, run, last, lastget, gateSeq, lastok, routes, ncmd,
                   redis_client, redis_state, local_rule_states, nsamples, redis_faults, hist,
                   cfg_vars, time, sink_vars, reboot_vars, listener_vars, health_vars,
                   awaiting, query_vars, lock_vars, config_file, api_config, api_vars, command_vars, stream_vars,
                   now, nticks>>

NextSched ==
    \/ \E t \in TickInstants : clock(t)
    \/ beat_tick
    \/ \E w \in Slots : check_schedules(w)
    \/ \E w \in Slots : turn_on_off(w)
    \/ \E w \in Slots : set_relay_state(w)

SpecSched == InitSched /\ [][NextSched]_vars

(***************************************************************************)
(* Configuration updates and the tasks of the worker. The API process      *)
(* holds ConfigurationManager and writes the custom file; the tasks of the *)
(* worker read SimpleConfigManager, which parses the file once.            *)
(***************************************************************************)
\* _update_config_task: ConfigurationManager.update_custom_config stores the
\* document, rebuilds the effective configuration and writes the custom
\* file; it returns whether the file was written
update_config_task(new_config, saved) ==
    /\ api_config' = new_config
    /\ config_file' = IF saved THEN <<new_config>> ELSE config_file
    /\ reload_hist' = IF saved
                      THEN [completed |-> TRUE, updated_to |-> new_config,
                            read_after |-> FALSE]
                      ELSE reload_hist
    /\ UNCHANGED <<queue, relay_vars, rule_vars, sched_vars, cfg_vars, time, sink_vars,
                   reboot_vars, listener_vars, health_vars, awaiting, query_vars, lock_vars, stream_vars,
                   command_vars, api_vars, worker_loaded>>

\* A sample of relay_3 handed to evaluate_rules
reload_sample(v) ==
    /\ nsamples < MaxReloadSamples
    /\ sensor_sample("relay_3", v)

ReloadInstants == {Monday2300, Instant(1, 9, 0)}

InitReload ==
    /\ InitRelays([Relays -> {"INACTIVE"}])
    /\ rule_op = DefaultAppConfig.operator
    /\ redis_client = TRUE
    /\ RulesIdle
    /\ config_relays = DefaultAppConfig.relays
    /\ now = Monday2300
    /\ checked = [r \in Relays |-> NoCheck]
    /\ nticks = 0
    /\ worker_loaded = FALSE
    /\ config_file = <<>>
    /\ api_config = DefaultAppConfig
    /\ reload_hist = NoReload
    /\ CfgIdle
    /\ time = 0
    /\ AwaitIdle
    /\ StreamsIdle
    /\ CommandIdle
    /\ ApiIdle
    /\ SinkIdle
    /\ RebootIdle
    /\ ListenersIdle
    /\ HealthIdle
    /\ QueryIdle
    /\ LockIdle

NextReload ==
    \/ \E new_config \in NewConfigs, saved \in BOOLEAN : update_config_task(new_config, saved)
    \/ \E t \in ReloadInstants : clock(t)
    \/ beat_tick
    \/ \E w \in Slots : check_schedules(w)
    \/ reload_sample(9)
    \/ \E w \in Slots : evaluate_rules(w)
    \/ \E w \in Slots : execute_action(w)
    \/ \E w \in Slots : turn_on_off(w)
    \/ \E w \in Slots : set_relay_state(w)

SpecReload == InitReload /\ [][NextReload]_vars

(***************************************************************************)
(* ConfigurationManager: listeners.                                        *)
(***************************************************************************)
Range(seq) == {seq[i] : i \in DOMAIN seq}

\* list.remove(x): the first occurrence leaves the list
RemoveFirst(seq, x) ==
    IF x \notin Range(seq) THEN seq
    ELSE LET first == CHOOSE i \in DOMAIN seq :
                          seq[i] = x /\ \A j \in 1..(i - 1) : seq[j] # x
         IN  SubSeq(seq, 1, first - 1) \o SubSeq(seq, first + 1, Len(seq))

\* The listeners that are registered, for every change or for a section
Registered(global, by_section) ==
    Range(global) \cup UNION {Range(by_section[section]) : section \in SectionKeys}

SectionOrder == <<"general", "relays", "tasks">>

\* _notify_listeners: the calls it creates, one for every global listener, then
\* one for every listener of every section of the effective configuration
RECURSIVE section_calls(_, _, _)
section_calls(order, effective, by_section) ==
    IF order = <<>> THEN <<>>
    ELSE (IF Head(order) \in DOMAIN effective THEN by_section[Head(order)] ELSE <<>>)
             \o section_calls(Tail(order), effective, by_section)

notification_tasks(effective, global, by_section) ==
    global \o section_calls(SectionOrder, effective, by_section)

\* _notify_single_listener: True when the listener returned; an exception and
\* the timeout of wait_for are caught and give False
notify_single_listener(behaviour) == behaviour \in {"ok", "mutates"}

\* asyncio.gather(*tasks, return_exceptions=True): every call runs, whatever the
\* other calls do
Mut_gather(calls, behaviour) ==
    {calls[i] : i \in {k \in DOMAIN calls :
                          \A j \in 1..(k - 1) : notify_single_listener(behaviour[calls[j]])}}

gather(calls, behaviour) == Range(calls)

\* The document a listener is called with: self._effective_config
listener_argument(cm) == cm._effective_config

\* What a listener that changes the document it was given does to it
mutate(doc) ==
    [key \in DOMAIN doc \cup {"general"} |->
        IF key = "general" THEN [system_name |-> "mutated"] ELSE doc[key]]

\* The listeners are given the effective configuration itself, not a copy:
\* what a listener does to the document is done to the manager's document
after_listeners(effective, mutated) ==
    IF mutated THEN mutate(effective) ELSE effective

\* _notify_listeners on the manager cm with the listeners behaving as given
notify_listeners(cm, behaviour) ==
    LET calls == notification_tasks(cm._effective_config, change_listeners,
                                    section_listeners)
        called == gather(calls, behaviour)
        mutated == \E l \in called : behaviour[l] = "mutates"
    IN  [manager |-> [cm EXCEPT !._effective_config = after_listeners(@, mutated)],
         raised |-> \E l \in called : notify_single_listener(behaviour[l]) \notin BOOLEAN,
         hist |-> [listening |-> Registered(change_listeners, section_listeners),
                   invoked |-> called,
                   given |-> {l \in called : listener_argument(cm) = cm._effective_config},
                   failed |-> {l \in called : ~notify_single_listener(behaviour[l])},
                   failed_before |-> notify_hist.failed,
                   dropped |-> Registered(change_listeners, section_listeners)
                                  \ Registered(change_listeners', section_listeners'),
                   raised |-> \E l \in called :
                                 notify_single_listener(behaviour[l]) \notin BOOLEAN,
                   effective_changed |->
                       after_listeners(cm._effective_config, mutated)
                           # cm._effective_config]]

\* The manager cm is in place, and the listeners are notified
Notified(cm, behaviour) ==
    /\ \A l \in Listeners :
          l \notin Range(notification_tasks(cm._effective_config, change_listeners,
                                            section_listeners))
              => behaviour[l] = "ok"
    /\ UNCHANGED <<change_listeners, section_listeners>>
    /\ LET notified == notify_listeners(cm, behaviour) IN
       /\ config_manager' = notified.manager
       /\ notify_hist' = notified.hist

\* register_listener, for a listener that is not registered yet
register_listener(listener, sections) ==
    /\ listener \notin Registered(change_listeners, section_listeners)
    /\ IF sections # <<>>
       THEN /\ section_listeners' =
                   [section \in SectionKeys |->
                       IF section \in Range(sections)
                       THEN Append(section_listeners[section], listener)
                       ELSE section_listeners[section]]
            /\ UNCHANGED change_listeners
       ELSE /\ change_listeners' = Append(change_listeners, listener)
            /\ UNCHANGED section_listeners
    /\ UNCHANGED <<queue, relay_vars, rule_vars, sched_vars, cfg_vars, time, sink_vars,
                   reboot_vars, notify_hist, health_vars, awaiting, reload_vars, query_vars, lock_vars, api_vars, command_vars, stream_vars>>

\* unregister_listener
unregister_listener(listener) ==
    /\ listener \in Registered(change_listeners, section_listeners)
    /\ change_listeners' = RemoveFirst(change_listeners, listener)
    /\ section_listeners' =
           [section \in SectionKeys |-> RemoveFirst(section_listeners[section], listener)]
    /\ UNCHANGED <<queue, relay_vars, rule_vars, sched_vars, cfg_vars, time, sink_vars,
                   reboot_vars, notify_hist, health_vars, awaiting, reload_vars, query_vars, lock_vars, api_vars, command_vars, stream_vars>>

(***************************************************************************)
(* ConfigurationManager calls.                                             *)
(***************************************************************************)
\* History: the call, whether the document it was given fits the schema, its
\* result, and whether it left the custom file and the effective
\* configuration as they were
Called(op, arg, result) ==
    [op |-> op, fits |-> FitsSchema(arg), result |-> result,
     file_kept |-> custom_file' = custom_file,
     effective_kept |-> config_manager'._effective_config
                           = config_manager._effective_config]

\* initialize -> load_all_configs: the default file, the custom file if there
\* is one, then the merge
initialize ==
    /\ ~config_manager._is_initialized
    /\ LET custom == IF custom_file.exists THEN custom_file.content ELSE EmptyDoc IN
       \E behaviour \in [Listeners -> Behaviours] :
           Notified([_default_config |-> DefaultDoc, _custom_config |-> custom,
                     _effective_config |-> generate_effective_config(DefaultDoc, custom),
                     _is_initialized |-> TRUE], behaviour)
    /\ custom_file' = custom_file
    /\ cfg_hist' = Called("initialize", EmptyDoc, TRUE)
    /\ UNCHANGED <<queue, relay_vars, rule_vars, sched_vars, time, sink_vars, reboot_vars, health_vars, awaiting, reload_vars, query_vars, lock_vars, api_vars, command_vars, stream_vars, pending_section, ncfg>>

\* _save_custom_config: the file takes the document, or the write raises and
\* leaves the file as it was or cut short
save_custom_config(new_config, saved, cut) ==
    IF saved THEN File(new_config)
    ELSE IF cut THEN File(EmptyDoc)
    ELSE custom_file

\* update_custom_config: store, merge, save, notify the listeners; the result
\* is that of the save unless the notification raises
update_custom_config(op, new_config, saved, cut) ==
    /\ config_manager._is_initialized
    /\ saved => ~cut
    /\ custom_file' = save_custom_config(new_config, saved, cut)
    /\ LET cm == [config_manager EXCEPT
                     !._custom_config = new_config,
                     !._effective_config =
                         generate_effective_config(config_manager._default_config,
                                                   new_config)]
       IN  \E behaviour \in [Listeners -> Behaviours] :
               /\ Notified(cm, behaviour)
               /\ cfg_hist' = Called(op, new_config, saved /\ ~notify_hist'.raised)
    /\ UNCHANGED <<queue, relay_vars, rule_vars, sched_vars, time, sink_vars, reboot_vars, health_vars, awaiting, reload_vars, query_vars, lock_vars, api_vars, command_vars, stream_vars>>

\* History: an operation on the whole document ends the overlaps
NotOverlapped == {[call EXCEPT !.overlapped = {}] : call \in pending_section}

\* POST /config/
update_full(new_config) ==
    /\ ncfg < MaxConfigCalls
    /\ ncfg' = ncfg + 1
    /\ \E saved \in BOOLEAN, cut \in BOOLEAN :
          update_custom_config("update_full", new_config, saved, cut)
    /\ pending_section' = NotOverlapped

\* get_full_config
get_full_config == config_manager._effective_config

\* get_section: the section of the effective configuration, {} when the
\* manager is not initialized or the section is missing
get_section(cm, section) ==
    IF ~cm._is_initialized THEN EmptyDoc
    ELSE IF section \in DOMAIN cm._effective_config THEN cm._effective_config[section]
    ELSE EmptyDoc

\* The configuration that was read is sent back whole
update_full_get_full ==
    /\ ncfg < MaxConfigCalls
    /\ ncfg' = ncfg + 1
    /\ \E saved \in BOOLEAN, cut \in BOOLEAN :
          update_custom_config("round_trip", get_full_config, saved, cut)
    /\ pending_section' = NotOverlapped

\* update_custom_config_section, first part under the lock: the custom
\* document, or the default when there is none, with the section replaced
update_section(section, new_section) ==
    /\ ncfg < MaxConfigCalls
    /\ config_manager._is_initialized
    /\ ncfg' = ncfg + 1
    /\ LET current == IF config_manager._custom_config # EmptyDoc
                      THEN config_manager._custom_config
                      ELSE config_manager._default_config
           updated_config ==
               [key \in DOMAIN current \cup {section} |->
                   IF key = section THEN new_section ELSE current[key]]
       IN pending_section' =
              pending_section \cup {[section |-> section, doc |-> updated_config,
                                     overlapped |-> {}]}
    /\ UNCHANGED <<queue, relay_vars, rule_vars, sched_vars, time, sink_vars, reboot_vars, listener_vars, health_vars, awaiting, reload_vars, query_vars, lock_vars, api_vars, command_vars, stream_vars, config_manager, custom_file,
                   cfg_hist>>

\* History: the section update `other` is between its two parts when the
\* section update `call` returns success
Overlapped(other, call) ==
    [other EXCEPT !.overlapped =
        {done \in @ : done.section # call.section}
            \cup {[section |-> call.section, doc |-> call.doc]}]

\* update_custom_config_section, second part: update_custom_config
update_section_apply ==
    \E call \in pending_section :
        /\ \E saved \in BOOLEAN, cut \in BOOLEAN :
              update_custom_config("update_section", call.doc, saved, cut)
        /\ pending_section' =
               IF cfg_hist'.result THEN {Overlapped(other, call) : other \in pending_section \ {call}}
               ELSE pending_section \ {call}
        /\ UNCHANGED ncfg

\* revert_to_defaults: the unlink may raise, which is logged
revert_to_defaults ==
    /\ ncfg < MaxConfigCalls
    /\ config_manager._is_initialized
    /\ ncfg' = ncfg + 1
    /\ \E unlinked \in BOOLEAN :
          /\ ~unlinked => custom_file.exists
          /\ custom_file' = IF unlinked THEN NoFile ELSE custom_file
    /\ \E behaviour \in [Listeners -> Behaviours] :
          LET cm == [config_manager EXCEPT
                        !._custom_config = EmptyDoc,
                        !._effective_config = config_manager._default_config]
          IN  /\ Notified(cm, behaviour)
              /\ cfg_hist' = Called("revert", EmptyDoc, ~notify_hist'.raised)
    /\ UNCHANGED <<queue, relay_vars, rule_vars, sched_vars, time, sink_vars, reboot_vars, health_vars, awaiting, reload_vars, query_vars, lock_vars, api_vars, command_vars, stream_vars>>
    /\ pending_section' = NotOverlapped

InitConfig ==
    /\ InitRelays([Relays -> {"INACTIVE"}])
    /\ rule_op = ">"
    /\ redis_client = TRUE
    /\ RulesIdle
    /\ SchedIdle
    /\ config_manager = [_default_config |-> EmptyDoc, _custom_config |-> EmptyDoc,
                         _effective_config |-> EmptyDoc, _is_initialized |-> FALSE]
    /\ custom_file \in {NoFile, File([relays |-> <<[id |-> "relay_2", pulse_time |-> "9"]>>])}
    /\ pending_section = {}
    /\ cfg_hist = NoCall
    /\ ncfg = 0
    /\ ServicesIdle

NextConfig ==
    \/ initialize
    \/ \E new_config \in CustomDocuments : update_full(new_config)
    \/ update_full_get_full
    \/ \E section \in SectionKeys : \E new_section \in Sections(section) :
          update_section(section, new_section)
    \/ update_section_apply
    \/ revert_to_defaults

SpecConfig == InitConfig /\ [][NextConfig]_vars

\* A reader changes the value that get_full_config, get_section,
\* get_relay_config or get_task_config returned: copy.deepcopy, the change is
\* made to the copy
after_readers(effective, mutated) == effective

reader_mutates ==
    /\ config_manager._is_initialized
    /\ cfg_hist.op # "get_full"
    /\ config_manager' =
           [config_manager EXCEPT !._effective_config = after_readers(@, TRUE)]
    /\ UNCHANGED <<queue, relay_vars, rule_vars, sched_vars, time, sink_vars, reboot_vars,
                   listener_vars, health_vars, awaiting, reload_vars, query_vars, lock_vars, api_vars, command_vars, stream_vars, custom_file, pending_section, ncfg>>
    /\ cfg_hist' = Called("get_full", EmptyDoc, TRUE)

\* The documents of the updates that the listeners are notified of; the disk
\* takes every write of these updates
ListenerDocuments == {Document({"general"}, g, <<>>, <<>>) : g \in Generals}

InitListeners ==
    /\ InitRelays([Relays -> {"INACTIVE"}])
    /\ rule_op = ">"
    /\ redis_client = TRUE
    /\ RulesIdle
    /\ SchedIdle
    /\ CfgIdle
    /\ ServicesIdle

NextListeners ==
    \/ \E listener \in Listeners, sections \in SectionLists :
          register_listener(listener, sections)
    \/ \E listener \in Listeners : unregister_listener(listener)
    \/ initialize
    \/ \E new_config \in ListenerDocuments : update_full(new_config) /\ cfg_hist'.result
    \/ revert_to_defaults
    \/ reader_mutates

SpecListeners == InitListeners /\ [][NextListeners]_vars

(***************************************************************************)
(* Time-series sink.                                                       *)
(***************************************************************************)
\* InfluxDBConnectionManager._handle_connection_failure
handle_connection_failure(cm, t) ==
    LET count == cm.failure_count + 1 IN
    [failure_count |-> count, last_failure_time |-> t,
     circuit_open |-> cm.circuit_open \/ count >= failure_threshold]

\* get_client: the breaker is open and stays open, the call returns None
fails_fast(cm, t) ==
    cm.circuit_open /\ ~(t - cm.last_failure_time > reset_timeout)

\* get_client at time t, with what the store does and the seconds it takes
get_client(cm, t, store, took) ==
    IF fails_fast(cm, t)
    THEN [manager |-> cm, client |-> FALSE, contacted |-> FALSE, until |-> t]
    ELSE LET reset == IF cm.circuit_open
                      THEN [cm EXCEPT !.circuit_open = FALSE, !.failure_count = 0]
                      ELSE cm
         IN  IF store \in {"ping_fails", "ping_raises"}
             THEN [manager |-> handle_connection_failure(reset, t + took),
                   client |-> FALSE, contacted |-> TRUE, until |-> t + took]
             ELSE [manager |-> [reset EXCEPT !.failure_count = 0],
                   client |-> TRUE, contacted |-> TRUE, until |-> t + took]

\* InfluxDBWriter._flush_internal on a buffer of n > 0 points: the points leave
\* the buffer, and are written if get_client gave a client and the write
\* does not raise
flush_internal(n, cm, t, store, took) ==
    LET got == get_client(cm, t, store, took) IN
    [manager |-> got.manager,
     until |-> got.until,
     flush |-> [called |-> TRUE,
                open |-> fails_fast(cm, t),
                probe |-> cm.circuit_open /\ ~fails_fast(cm, t),
                contacted |-> got.contacted,
                stored |-> got.client /\ store = "ok",
                batch |-> n]]

\* History of a flush
Flushed(h, f, t, until) ==
    [h EXCEPT
        !.flush = f,
        !.failed_writes = IF ~f.contacted THEN @ ELSE IF f.stored THEN 0 ELSE @ + 1,
        !.failed_probe_at = IF f.stored THEN -1
                            ELSE IF f.probe THEN until
                            ELSE @,
        !.early = @ \/ (f.contacted /\ h.failed_probe_at >= 0
                        /\ t - h.failed_probe_at < reset_timeout)]

\* SensorDataCollector._read_relay_sensor after a successful read:
\* await influx_writer.write(point), which flushes when the buffer has reached
\* batch_size, then evaluate_rules.delay(relay_id, mapped_data)
read_relay_sensor(r) ==
    /\ npoints < MaxPoints
    /\ npoints' = npoints + 1
    /\ LET n == points_buffer + 1 IN
       IF n >= batch_size
       THEN \E store \in StoreOutcomes, took \in Durations :
               LET done == flush_internal(n, connection_manager, time, store, took) IN
               /\ done.until <= MaxTime
               /\ points_buffer' = 0
               /\ connection_manager' = done.manager
               /\ time' = done.until
               /\ sink_hist' =
                      [Flushed(sink_hist, done.flush, time, done.until) EXCEPT
                          !.handoff = [done |-> TRUE, waited |-> done.flush.contacted]]
       ELSE /\ points_buffer' = n
            /\ sink_hist' = [sink_hist EXCEPT !.handoff = [done |-> TRUE, waited |-> FALSE]]
            /\ UNCHANGED <<connection_manager, time>>
    /\ sensor_health' = [sensor_health EXCEPT ![r] = "True"]
    /\ failed_reads' = [failed_reads EXCEPT ![r] = 0]
    /\ Enqueue([Msg("evaluate_rules", r, FALSE, "sensor", -1) EXCEPT !.value = Example[1]])
    /\ UNCHANGED <<relay_vars, rule_vars, sched_vars, cfg_vars, reboot_vars, listener_vars, awaiting, reload_vars, query_vars, lock_vars, api_vars, command_vars, stream_vars>>

\* SensorDataCollector._read_relay_sensor when the read fails: the sensor
\* cannot be initialized or the data is incomplete (early return), or the read
\* runs into its timeout or raises (except handlers, which set the health
\* entry to False)
read_relay_sensor_failed(r, failure) ==
    /\ sensor_health' =
           IF failure \in {"timeout", "exception"}
           THEN [sensor_health EXCEPT ![r] = "False"]
           ELSE sensor_health
    /\ failed_reads' =
           [failed_reads EXCEPT ![r] = IF @ < UnhealthyAfter THEN @ + 1 ELSE @]
    /\ UNCHANGED <<queue, relay_vars, rule_vars, sched_vars, cfg_vars, time, sink_vars,
                   reboot_vars, listener_vars, awaiting, reload_vars, query_vars, lock_vars, api_vars, command_vars, stream_vars>>

\* get_sensor_health: the sensors reported unhealthy
get_sensor_health == {r \in Relays : sensor_health[r] = "False"}

\* monitor_system: a writer of its own is started, takes the one point and is
\* stopped, and stop() flushes the point through the shared connection manager
monitor_system ==
    /\ npoints < MaxPoints
    /\ npoints' = npoints + 1
    /\ \E store \in StoreOutcomes, took \in Durations :
          LET done == flush_internal(1, connection_manager, time, store, took) IN
          /\ done.until <= MaxTime
          /\ connection_manager' = done.manager
          /\ time' = done.until
          /\ sink_hist' = Flushed(sink_hist, done.flush, time, done.until)
    /\ UNCHANGED <<queue, relay_vars, rule_vars, sched_vars, cfg_vars, reboot_vars, listener_vars, health_vars, awaiting, reload_vars, query_vars, lock_vars, api_vars, command_vars, stream_vars,
                   points_buffer>>

\* Time passes between two tasks
pass_time(d) ==
    /\ time + d <= MaxTime
    /\ time' = time + d
    /\ UNCHANGED <<queue, relay_vars, rule_vars, sched_vars, cfg_vars, sink_vars,
                   reboot_vars, listener_vars, health_vars, awaiting, reload_vars, query_vars, lock_vars, api_vars, command_vars, stream_vars>>

InitSink ==
    /\ InitRelays([Relays -> {"INACTIVE"}])
    /\ rule_op = ">"
    /\ redis_client = TRUE
    /\ RulesIdle
    /\ SchedIdle
    /\ CfgIdle
    /\ time = 0
    /\ connection_manager =
           [failure_count |-> 0, last_failure_time |-> 0, circuit_open |-> FALSE]
    /\ points_buffer \in BufferedAtStart
    /\ sink_hist = [failed_writes |-> 0, flush |-> NoFlush, failed_probe_at |-> -1,
                    early |-> FALSE, handoff |-> NoHandoff]
    /\ npoints = 0
    /\ RebootIdle
    /\ ListenersIdle
    /\ HealthIdle
    /\ AwaitIdle
    /\ StreamsIdle
    /\ ApiIdle
    /\ CommandIdle
    /\ ReloadIdle
    /\ QueryIdle
    /\ LockIdle

NextSink ==
    \/ \E r \in SinkSensors : read_relay_sensor(r)
    \/ monitor_system
    \/ \E d \in Pauses : pass_time(d)

SpecSink == InitSink /\ [][NextSink]_vars

(***************************************************************************)
(* ConfigurationManager: the lock. The operations are coroutines of one    *)
(* event loop; a step runs a coroutine from one await to the next.         *)
(***************************************************************************)
\* The documents the coroutines update the configuration with
LockDocuments == {Document({"general"}, g, <<>>, <<>>) : g \in Generals}

\* _notify_listeners awaits asyncio.gather only when a call was created
notify_suspends(effective) ==
    notification_tasks(effective, change_listeners, section_listeners) # <<>>

\* asyncio.Lock.acquire by c when the lock is free and nobody waits
lock_acquire(c, waiters) == [locked |-> TRUE, owner |-> c, waiters |-> waiters]

\* asyncio.Lock.release: the lock is unlocked, whoever locked it
lock_release == [locked |-> FALSE, owner |-> "none", waiters |-> cm_lock.waiters]

\* finally: if self._lock.locked(): self._lock.release()
finally_release == IF cm_lock.locked THEN lock_release ELSE cm_lock

\* History: c releases the lock while another coroutine holds it
Stolen(c) == [stolen |-> lock_hist.stolen \/ (cm_lock.locked /\ cm_lock.owner # c)]

LockFrame ==
    UNCHANGED <<queue, relay_vars, rule_vars, sched_vars, time, sink_vars, reboot_vars,
                listener_vars, health_vars, awaiting, reload_vars, query_vars, api_vars,
                command_vars, stream_vars, pending_section, cfg_hist, ncfg>>

\* The locked section of update_custom_config up to await _save_custom_config
update_locked(c, new_config, waiters) ==
    /\ cm_lock' = lock_acquire(c, waiters)
    /\ coroutines' = [coroutines EXCEPT
                         ![c] = [op |-> "update", pc |-> "saving", arg |-> new_config]]
    /\ config_manager' =
           [config_manager EXCEPT
               !._custom_config = new_config,
               !._effective_config =
                   generate_effective_config(config_manager._default_config, new_config)]
    /\ UNCHANGED <<custom_file, lock_hist>>

\* revert_to_defaults from the acquire to await _notify_listeners: the locked
\* section has no await; the lock is released before the listeners are
\* notified, and the finally clause follows at once when nothing is awaited
revert_locked(c, waiters) ==
    /\ cm_lock' = [cm_lock EXCEPT !.waiters = waiters]
    /\ coroutines' = [coroutines EXCEPT
                         ![c] = IF notify_suspends(config_manager._default_config)
                                THEN [op |-> "revert", pc |-> "notifying", arg |-> EmptyDoc]
                                ELSE NotCalling]
    /\ config_manager' =
           [config_manager EXCEPT
               !._custom_config = EmptyDoc,
               !._effective_config = config_manager._default_config]
    /\ custom_file' = NoFile
    /\ UNCHANGED lock_hist

\* await asyncio.wait_for(self._lock.acquire(), timeout=5.0) when the lock is
\* held or a coroutine waits for it: c waits in turn
lock_wait(c, op, new_config) ==
    /\ cm_lock' = [cm_lock EXCEPT !.waiters = Append(@, c)]
    /\ coroutines' = [coroutines EXCEPT
                         ![c] = [op |-> op, pc |-> "acquiring", arg |-> new_config]]
    /\ UNCHANGED <<config_manager, custom_file, lock_hist>>

\* A coroutine calls update_custom_config or revert_to_defaults
lock_call(c, op, new_config) ==
    /\ coroutines[c] = NotCalling
    /\ nops < MaxOps
    /\ nops' = nops + 1
    /\ IF cm_lock.locked \/ cm_lock.waiters # <<>>
       THEN lock_wait(c, op, new_config)
       ELSE IF op = "update" THEN update_locked(c, new_config, <<>>)
            ELSE revert_locked(c, <<>>)
    /\ LockFrame

\* The first waiter is woken when the lock is free
lock_acquired(c) ==
    /\ coroutines[c].pc = "acquiring"
    /\ ~cm_lock.locked
    /\ cm_lock.waiters # <<>> /\ Head(cm_lock.waiters) = c
    /\ IF coroutines[c].op = "update"
       THEN update_locked(c, coroutines[c].arg, Tail(cm_lock.waiters))
       ELSE revert_locked(c, Tail(cm_lock.waiters))
    /\ UNCHANGED nops
    /\ LockFrame

\* wait_for gives up after 5 seconds: the operation returns False
lock_timeout(c) ==
    /\ coroutines[c].pc = "acquiring"
    /\ cm_lock.locked
    /\ cm_lock' = [cm_lock EXCEPT !.waiters = RemoveFirst(@, c)]
    /\ coroutines' = [coroutines EXCEPT ![c] = NotCalling]
    /\ UNCHANGED <<config_manager, custom_file, lock_hist, nops>>
    /\ LockFrame

\* update_custom_config from the return of _save_custom_config: the caches,
\* self._lock.release() (which raises when the lock is not locked), then the
\* listeners; the finally clause follows at once when nothing is awaited
update_saved(c, saved) ==
    /\ coroutines[c].pc = "saving"
    /\ custom_file' = IF saved THEN File(config_manager._custom_config) ELSE custom_file
    /\ cm_lock' = lock_release
    /\ lock_hist' = Stolen(c)
    /\ coroutines' = [coroutines EXCEPT
                         ![c] = IF cm_lock.locked
                                   /\ notify_suspends(config_manager._effective_config)
                                THEN [op |-> "update", pc |-> "notifying",
                                      arg |-> coroutines[c].arg]
                                ELSE NotCalling]
    /\ UNCHANGED <<config_manager, nops>>
    /\ LockFrame

\* The listeners have answered: the operation returns through its finally
\* clause
lock_notified(c) ==
    /\ coroutines[c].pc = "notifying"
    /\ cm_lock' = finally_release
    /\ lock_hist' = Stolen(c)
    /\ coroutines' = [coroutines EXCEPT ![c] = NotCalling]
    /\ UNCHANGED <<config_manager, custom_file, nops>>
    /\ LockFrame

\* register_listener for every change, by the one listener of this part
lock_listener == register_listener("l1", <<>>)

InitLock ==
    /\ InitRelays([Relays -> {"INACTIVE"}])
    /\ rule_op = ">"
    /\ redis_client = TRUE
    /\ RulesIdle
    /\ SchedIdle
    /\ config_manager = [_default_config |-> DefaultDoc, _custom_config |-> EmptyDoc,
                         _effective_config |-> DefaultDoc, _is_initialized |-> TRUE]
    /\ custom_file = NoFile
    /\ pending_section = {}
    /\ cfg_hist = NoCall
    /\ ncfg = 0
    /\ ServicesIdle

NextLock ==
    \/ lock_listener
    \/ \E c \in Coroutines, op \in LockedOperations, new_config \in LockDocuments :
          lock_call(c, op, new_config)
    \/ \E c \in Coroutines : lock_acquired(c)
    \/ \E c \in Coroutines : lock_timeout(c)
    \/ \E c \in Coroutines, saved \in BOOLEAN : update_saved(c, saved)
    \/ \E c \in Coroutines : lock_notified(c)

SpecLock == InitLock /\ [][NextLock]_vars

(***************************************************************************)
(* Queries. InfluxDBReader of the API process has the connection manager   *)
(* of its process; the writers run in the tasks of the worker.             *)
(***************************************************************************)
\* The clients that get_client creates and leaves open: the one it returns,
\* and the one whose ping raised (only a ping that answers False is followed
\* by client.close())
clients_left_open(cm, t, store) ==
    IF fails_fast(cm, t) \/ store = "ping_fails" THEN 0 ELSE 1

\* InfluxDBConnectionManager.close: closes self.client, which get_client
\* never sets
close_closes == 0

\* InfluxDBReader.query
query(store, took) ==
    /\ nqueries < MaxQueries
    /\ nqueries' = nqueries + 1
    /\ LET got == get_client(reader_manager, time, store, took)
           opened == clients_left_open(reader_manager, time, store)
           closed == IF got.client THEN close_closes ELSE 0
       IN
       /\ got.until <= MaxTime
       /\ reader_manager' = got.manager
       /\ time' = got.until
       /\ open_clients' = open_clients + opened - closed
       /\ query_hist' = [called |-> TRUE, outcome |-> store,
                         refused |-> fails_fast(reader_manager, time),
                         opened |-> opened, closed |-> closed]
    /\ UNCHANGED <<queue, relay_vars, rule_vars, sched_vars, cfg_vars, sink_vars,
                   reboot_vars, listener_vars, health_vars, awaiting, stream_vars,
                   command_vars, api_vars, reload_vars, lock_vars>>

InitQuery ==
    /\ InitRelays([Relays -> {"INACTIVE"}])
    /\ rule_op = ">"
    /\ redis_client = TRUE
    /\ RulesIdle
    /\ SchedIdle
    /\ CfgIdle
    /\ ServicesIdle

\* A batch write of the worker between the queries
write_between_queries ==
    /\ npoints < MaxQueries
    /\ monitor_system

NextQuery ==
    \/ \E store \in QueryOutcomes : query(store, 0)
    \/ write_between_queries
    \/ pass_time(reset_timeout)

SpecQuery == InitQuery /\ [][NextQuery]_vars

InitHealth ==
    /\ InitRelays([Relays -> {"INACTIVE"}])
    /\ rule_op = ">"
    /\ redis_client = TRUE
    /\ RulesIdle
    /\ SchedIdle
    /\ CfgIdle
    /\ ServicesIdle

NextHealth ==
    \/ \E r \in Relays : read_relay_sensor(r)
    \/ \E r \in Relays, failure \in ReadFailures : read_relay_sensor_failed(r, failure)

SpecHealth == InitHealth /\ [][NextHealth]_vars

(***************************************************************************)
(* API routes of app/api/relay.py: the wait for the result of the task.    *)
(***************************************************************************)
\* The route sends its task and calls task.get with its timeout
route_request(route, r) ==
    /\ ncmd < MaxCmds
    /\ awaiting[route].pc # "waiting"
    /\ ncmd' = ncmd + 1
    /\ Enqueue(Msg(route_task[route], r, route = "on", "api", -1))
    /\ awaiting' = [awaiting EXCEPT ![route] = [pc |-> "waiting", waited |-> 0, code |-> 0]]
    /\ UNCHANGED <<rule_vars, sched_vars, cfg_vars, time, sink_vars, reboot_vars,
                   listener_vars, health_vars, reload_vars, query_vars, lock_vars, api_vars, command_vars, stream_vars, level, lock, eta, run, last, lastget,
                   gateSeq, lastok, routes, faults>>

\* Time passes for a request inside task.get, up to the next instant at which
\* a timeout runs out
wait(route) ==
    /\ awaiting[route].pc = "waiting"
    /\ \E t \in WaitInstants :
          /\ t > awaiting[route].waited
          /\ \A u \in WaitInstants : u > awaiting[route].waited => t <= u
          /\ task_get_timeout[route] # -1 => t <= task_get_timeout[route]
          /\ awaiting' = [awaiting EXCEPT ![route].waited = t]
    /\ UNCHANGED <<queue, relay_vars, rule_vars, sched_vars, cfg_vars, time, sink_vars,
                   reboot_vars, listener_vars, health_vars, reload_vars, query_vars, lock_vars, api_vars, command_vars, stream_vars>>

\* task.get(timeout=...) raises TimeoutError once the timeout has run out,
\* never when the timeout is None; the route answers 500
task_get_raises(route) ==
    /\ awaiting[route].pc = "waiting"
    /\ task_get_timeout[route] # -1
    /\ awaiting[route].waited >= task_get_timeout[route]
    /\ awaiting' = [awaiting EXCEPT ![route].pc = "returned", ![route].code = 500]
    /\ UNCHANGED <<queue, relay_vars, rule_vars, sched_vars, cfg_vars, time, sink_vars,
                   reboot_vars, listener_vars, health_vars, reload_vars, query_vars, lock_vars, api_vars, command_vars, stream_vars>>

\* The worker has stored the result of the task: task.get returns it, and the
\* route answers; the pulse route sends the pulse task before it answers
task_get_returns(route, success) ==
    /\ awaiting[route].pc = "waiting"
    /\ route \notin {"on", "off"} => success
    /\ awaiting' = [awaiting EXCEPT ![route].pc = "returned",
                                    ![route].code = IF success THEN 200 ELSE 500]
    /\ IF route = "pulse"
       THEN Enqueue(Msg("pulse_relay", queue[1].relay, FALSE, "api", -1))
       ELSE UNCHANGED queue
    /\ UNCHANGED <<relay_vars, rule_vars, sched_vars, cfg_vars, time, sink_vars,
                   reboot_vars, listener_vars, health_vars, reload_vars, query_vars, lock_vars, api_vars, command_vars, stream_vars>>

InitDeadline ==
    /\ InitRelays([Relays -> {"INACTIVE"}])
    /\ rule_op = ">"
    /\ redis_client = TRUE
    /\ RulesIdle
    /\ SchedIdle
    /\ CfgIdle
    /\ ServicesIdle

NextDeadline ==
    \/ \E route \in WaitingRoutes, r \in SinkSensors : route_request(route, r)
    \/ \E route \in WaitingRoutes : wait(route)
    \/ \E route \in WaitingRoutes : task_get_raises(route)
    \/ \E route \in WaitingRoutes, success \in BOOLEAN : task_get_returns(route, success)

\* Time passes, and a timeout that has run out is raised; nothing makes the
\* worker produce a result
SpecDeadline ==
    /\ InitDeadline
    /\ [][NextDeadline]_vars
    /\ \A route \in WaitingRoutes :
          WF_vars(wait(route)) /\ WF_vars(task_get_raises(route))

(***************************************************************************)
(* Reboot action.                                                          *)
(***************************************************************************)
\* redis_client.exists(key) at time t
key_exists(keys, k, t) ==
    keys[k].set /\ (keys[k].expires < 0 \/ t < keys[k].expires)

\* redis_client.set(key, "1") and redis_client.expire(key, 60) under the
\* outcome redis: a set that raises leaves the key as it was, an expire that
\* raises leaves the key set for good
set_and_expire(keys, k, t, redis) ==
    IF redis = "set_fails" THEN keys
    ELSE IF redis = "expire_fails" THEN [keys EXCEPT ![k] = [set |-> TRUE, expires |-> -1]]
    ELSE [keys EXCEPT ![k] = [set |-> TRUE, expires |-> t + reboot_expire]]

\* History of a write to /dev/watchdog at time t
Written(w, t) ==
    [writes |-> w.writes + 1,
     last_write |-> t,
     rewritten |-> w.rewritten \/ (w.last_write >= 0 /\ t - w.last_write < reboot_expire)]

\* rule_tasks._execute_reboot_action: reboot_scheduled is what exists() said,
\* False without a Redis client or when a Redis command raises; the watchdog
\* device is written unless reboot_scheduled, and opening it may fail
execute_reboot_action ==
    /\ nreboots < MaxReboots
    /\ nreboots' = nreboots + 1
    /\ \E redis \in RedisOutcomes, opened \in BOOLEAN :
          LET reboot_key == "system:reboot"
              found == key_exists(redis_keys, reboot_key, time)
              reboot_scheduled == redis_client /\ redis # "exists_fails" /\ found
          IN  /\ ~redis_client => redis = "ok"
              /\ redis \in {"set_fails", "expire_fails"} => ~found
              /\ redis_keys' =
                     IF redis_client /\ redis # "exists_fails" /\ ~found
                     THEN set_and_expire(redis_keys, reboot_key, time, redis)
                     ELSE redis_keys
              /\ watchdog' =
                     IF ~reboot_scheduled /\ opened THEN Written(watchdog, time)
                     ELSE watchdog
    /\ UNCHANGED <<queue, relay_vars, rule_vars, sched_vars, cfg_vars, time, sink_vars,
                   listener_vars, health_vars, awaiting, reload_vars, query_vars, lock_vars, api_vars, command_vars, stream_vars>>

\* TaskManager._execute_reboot_action: returns if its own key exists, else sets
\* it and schedules "sudo reboot"; it does not write to the watchdog device
TaskManager_execute_reboot_action ==
    /\ nreboots < MaxReboots
    /\ nreboots' = nreboots + 1
    /\ \E redis \in RedisOutcomes :
          LET reboot_key == "system_reboot_scheduled"
              found == key_exists(redis_keys, reboot_key, time)
          IN  /\ redis \in {"set_fails", "expire_fails"} => ~found
              /\ redis_keys' =
                     IF redis # "exists_fails" /\ ~found
                     THEN set_and_expire(redis_keys, reboot_key, time, redis)
                     ELSE redis_keys
    /\ UNCHANGED <<queue, relay_vars, rule_vars, sched_vars, cfg_vars, time, sink_vars,
                   listener_vars, health_vars, awaiting, reload_vars, query_vars, lock_vars, api_vars, command_vars, stream_vars, watchdog>>

InitReboot ==
    /\ InitRelays([Relays -> {"INACTIVE"}])
    /\ rule_op = ">"
    /\ redis_client \in BOOLEAN
    /\ RulesIdle
    /\ SchedIdle
    /\ CfgIdle
    /\ time = 0
    /\ SinkIdle
    /\ RebootIdle
    /\ ListenersIdle
    /\ HealthIdle
    /\ AwaitIdle
    /\ StreamsIdle
    /\ ApiIdle
    /\ CommandIdle
    /\ ReloadIdle
    /\ QueryIdle
    /\ LockIdle

NextReboot ==
    \/ execute_reboot_action
    \/ TaskManager_execute_reboot_action
    \/ \E d \in Pauses : pass_time(d)

SpecReboot == InitReboot /\ [][NextReboot]_vars

(***************************************************************************)
(* Live streams: app/api/websocket.py, app/utils/websocket_utils.py and    *)
(* the relay-state stream of app/api/relay.py.                             *)
(***************************************************************************)
register_connection(key) == active_connections \cup {key}

unregister_connection(key) == active_connections \ {key}

\* safe_send_json answers True or False, or raises the RuntimeError again
safe_send_json(outcome) ==
    CASE outcome = "sent" -> "True"
      [] outcome \in {"close_sent", "error"} -> "False"
      [] OTHER -> "raises"

\* What a send can do: no frame reaches a peer that has closed
CanSend(c) ==
    IF streams[c].peer = "closed" THEN SendOutcomes \ {"sent"} ELSE SendOutcomes

\* websocket_handler enters websocket_connection: accept, on_connect, and the
\* registration if on_connect has not refused; if it has, the body returns
\* and the finally clause of the context manager unregisters
websocket_handler_connect(c, authenticated) ==
    /\ c = "relay_1"
    /\ streams[c].pc = "new"
    /\ IF authenticated
       THEN /\ active_connections' = register_connection(c)
            /\ streams' = [streams EXCEPT ![c].pc = "loop"]
       ELSE /\ active_connections' = unregister_connection(c)
            /\ streams' = [streams EXCEPT ![c].pc = "done"]
    /\ UNCHANGED <<queue, relay_vars, rule_vars, sched_vars, cfg_vars, time, sink_vars,
                   reboot_vars, listener_vars, health_vars, awaiting, reload_vars, query_vars, lock_vars, api_vars, command_vars, latest_sensor_data>>

\* One iteration of the loop of websocket_handler: a frame is sent only if
\* the cache has data for the source; a send that fails ends the loop (break,
\* or the exception caught around the loop), and leaving the context manager
\* unregisters the connection
websocket_handler_loop(c, outcome) ==
    /\ c = "relay_1"
    /\ streams[c].pc = "loop"
    /\ outcome \in CanSend(c)
    /\ IF c \in latest_sensor_data
       THEN IF safe_send_json(outcome) = "True"
            THEN /\ streams[c].frames < MaxFrames
                 /\ streams' = [streams EXCEPT ![c].frames = @ + 1]
                 /\ UNCHANGED active_connections
            ELSE /\ streams' = [streams EXCEPT ![c].pc = "done",
                                               ![c].send_failed = TRUE]
                 /\ active_connections' = unregister_connection(c)
       ELSE UNCHANGED <<active_connections, streams>>
    /\ UNCHANGED <<queue, relay_vars, rule_vars, sched_vars, cfg_vars, time, sink_vars,
                   reboot_vars, listener_vars, health_vars, awaiting, reload_vars, query_vars, lock_vars, api_vars, command_vars, latest_sensor_data>>

\* update_sensor_data stores the data of a source
update_sensor_data(source) ==
    /\ latest_sensor_data' = latest_sensor_data \cup {source}
    /\ UNCHANGED <<queue, relay_vars, rule_vars, sched_vars, cfg_vars, time, sink_vars,
                   reboot_vars, listener_vars, health_vars, awaiting, reload_vars, query_vars, lock_vars, api_vars, command_vars, active_connections, streams>>

\* all_relay_states_websocket: accept, the token, and the registration; a
\* token that is refused ends the handler before the registration
all_relay_states_websocket_connect(c, authenticated) ==
    /\ c = "all_relay_states"
    /\ streams[c].pc = "new"
    /\ IF authenticated
       THEN /\ active_connections' = register_connection(c)
            /\ streams' = [streams EXCEPT ![c].pc = "loop"]
       ELSE /\ UNCHANGED active_connections
            /\ streams' = [streams EXCEPT ![c].pc = "done"]
    /\ UNCHANGED <<queue, relay_vars, rule_vars, sched_vars, cfg_vars, time, sink_vars,
                   reboot_vars, listener_vars, health_vars, awaiting, reload_vars, query_vars, lock_vars, api_vars, command_vars, latest_sensor_data>>

\* One iteration of relay_states_polling_loop: a frame is sent only if the
\* task has given states; a send answering False ends the loop and the
\* finally clause of all_relay_states_websocket unregisters; an exception
\* raised by the send is caught inside the loop, which goes on
relay_states_polling_loop(c, states, outcome) ==
    /\ c = "all_relay_states"
    /\ streams[c].pc = "loop"
    /\ outcome \in CanSend(c)
    /\ IF states = "states"
       THEN CASE safe_send_json(outcome) = "True" ->
                   /\ streams[c].frames < MaxFrames
                   /\ streams' = [streams EXCEPT ![c].frames = @ + 1]
                   /\ UNCHANGED active_connections
              [] safe_send_json(outcome) = "False" ->
                   /\ streams' = [streams EXCEPT ![c].pc = "done",
                                                 ![c].send_failed = TRUE]
                   /\ active_connections' = unregister_connection(c)
              [] OTHER ->
                   /\ streams' = [streams EXCEPT ![c].send_failed = TRUE]
                   /\ UNCHANGED active_connections
       ELSE UNCHANGED <<active_connections, streams>>
    /\ UNCHANGED <<queue, relay_vars, rule_vars, sched_vars, cfg_vars, time, sink_vars,
                   reboot_vars, listener_vars, health_vars, awaiting, reload_vars, query_vars, lock_vars, api_vars, command_vars, latest_sensor_data>>

\* The peer closes the connection; the handlers never receive
peer_closes(c) ==
    /\ streams[c].pc = "loop"
    /\ streams[c].peer = "open"
    /\ streams' = [streams EXCEPT ![c].peer = "closed"]
    /\ UNCHANGED <<queue, relay_vars, rule_vars, sched_vars, cfg_vars, time, sink_vars,
                   reboot_vars, listener_vars, health_vars, awaiting, reload_vars, query_vars, lock_vars, api_vars, command_vars, active_connections, latest_sensor_data>>

InitStreams ==
    /\ InitRelays([Relays -> {"INACTIVE"}])
    /\ rule_op = ">"
    /\ redis_client = TRUE
    /\ RulesIdle
    /\ SchedIdle
    /\ CfgIdle
    /\ ServicesIdle

NextStreams ==
    \/ \E c \in Connections, authenticated \in BOOLEAN :
          websocket_handler_connect(c, authenticated)
    \/ \E c \in Connections, authenticated \in BOOLEAN :
          all_relay_states_websocket_connect(c, authenticated)
    \/ \E c \in Connections, outcome \in SendOutcomes : websocket_handler_loop(c, outcome)
    \/ \E c \in Connections, states \in StateResults, outcome \in SendOutcomes :
          relay_states_polling_loop(c, states, outcome)
    \/ \E source \in {"relay_1"} : update_sensor_data(source)
    \/ \E c \in Connections : peer_closes(c)

\* The event loop runs the coroutine of every connection
SpecStreams ==
    /\ InitStreams
    /\ [][NextStreams]_vars
    /\ \A c \in Connections :
          /\ WF_vars(\E outcome \in SendOutcomes : websocket_handler_loop(c, outcome))
          /\ WF_vars(\E states \in StateResults, outcome \in SendOutcomes :
                        relay_states_polling_loop(c, states, outcome))

(***************************************************************************)
(* Relay commands of app/api/relay.py with the answer of the worker: what  *)
(* a command naming any id is answered and what it does to the relays.     *)
(***************************************************************************)
\* RelayControl.__init__ raises ValueError unless env.HARDWARE_CONFIG has
\* the id
RelayControl_raises(relay_id) == relay_id \notin DOMAIN HARDWARE_CONFIG

\* except Exception of the routes: whatever is raised inside the try block,
\* the HTTPException of the route itself included, is answered 500
route_except(raised) == 500

\* POST /io/{relay_id}/state/on and /off: the task is sent for any id; the
\* task answers an error if RelayControl raises, else the result of the change
relay_state_route(relay_id, state, outcome) ==
    /\ ncmd < MaxCmds
    /\ ncmd' = ncmd + 1
    /\ IF RelayControl_raises(relay_id)
       THEN /\ outcome = "ok"
            /\ UNCHANGED <<level, faults>>
            /\ command' = [route |-> IF state THEN "on" ELSE "off",
                           relay_id |-> relay_id,
                           code |-> route_except(
                                        turn_relay_response([status |-> "error"]).code),
                           before |-> level, after |-> level]
       ELSE LET new == set_relay_state_target(state)
                response == turn_relay_response(change_state(relay_id, new, outcome)) IN
            /\ hardware_write(relay_id, new, outcome)
            /\ command' = [route |-> IF state THEN "on" ELSE "off",
                           relay_id |-> relay_id,
                           code |-> IF response.code = 200 THEN 200
                                    ELSE route_except(response.code),
                           before |-> level, after |-> level']
    /\ UNCHANGED <<queue, rule_vars, sched_vars, cfg_vars, time, sink_vars, reboot_vars,
                   listener_vars, health_vars, awaiting, reload_vars, query_vars, lock_vars, api_vars, stream_vars, configured,
                   lock, eta, run, last, lastget, gateSeq, lastok, routes>>

\* POST /io/{relay_id}/state/pulse: the id is looked up in config.relays and
\* the 404 for an id that is not there is raised inside the try block; for a
\* configured relay the state is read and the pulse task toggles the relay
pulse_route(relay_id, outcome) ==
    /\ ncmd < MaxCmds
    /\ ncmd' = ncmd + 1
    /\ IF relay_id \notin configured
       THEN /\ outcome = "ok"
            /\ UNCHANGED <<level, faults>>
            /\ command' = [route |-> "pulse", relay_id |-> relay_id,
                           code |-> route_except(404),
                           before |-> level, after |-> level]
       ELSE /\ hardware_write(relay_id, 1 - current_state(relay_id), outcome)
            /\ command' = [route |-> "pulse", relay_id |-> relay_id, code |-> 200,
                           before |-> level, after |-> level']
    /\ UNCHANGED <<queue, rule_vars, sched_vars, cfg_vars, time, sink_vars, reboot_vars,
                   listener_vars, health_vars, awaiting, reload_vars, query_vars, lock_vars, api_vars, stream_vars, configured,
                   lock, eta, run, last, lastget, gateSeq, lastok, routes>>

InitCommand ==
    /\ InitRelays([Relays -> Levels])
    /\ rule_op = ">"
    /\ redis_client = TRUE
    /\ RulesIdle
    /\ SchedIdle
    /\ CfgIdle
    /\ time = 0
    /\ AwaitIdle
    /\ StreamsIdle
    /\ ApiIdle
    /\ SinkIdle
    /\ RebootIdle
    /\ ListenersIdle
    /\ HealthIdle
    /\ configured \in SUBSET Relays
    /\ command = NoCommand
    /\ ReloadIdle
    /\ QueryIdle
    /\ LockIdle

NextCommand ==
    \/ \E relay_id \in RelayIds, state \in BOOLEAN, outcome \in Outcomes :
          relay_state_route(relay_id, state, outcome)
    \/ \E relay_id \in RelayIds, outcome \in Outcomes : pulse_route(relay_id, outcome)

SpecCommand == InitCommand /\ [][NextCommand]_vars

(***************************************************************************)
(* Requests to the configuration and device routes: the route that takes   *)
(* a request, its dependency, the endpoint and the background tasks.       *)
(***************************************************************************)
\* A path matches a route if it has the segments of the route, a path
\* parameter standing for any one segment
path_matches(route_path, path) ==
    /\ Len(route_path) = Len(path)
    /\ \A i \in DOMAIN path : route_path[i] = path[i] \/ route_path[i] \in PathParameters

\* The router hands a request to the first route, in the order of
\* declaration, that its method and path match; 0 if there is none
first_match(request) ==
    LET matching == {i \in DOMAIN Routes :
                        /\ Routes[i].method = request.method
                        /\ path_matches(Routes[i].path, request.path)} IN
    IF matching = {} THEN 0
    ELSE CHOOSE i \in matching : \A j \in matching : i <= j

\* OAuth2PasswordBearer with auto_error: 401 without a token
oauth2_scheme(credentials) == IF credentials = "none" THEN 401 ELSE 0

\* get_current_user: 403 for a token that does not decode, 401 for one without
\* subject or role; 0 stands for the user being returned
get_current_user(credentials) ==
    IF oauth2_scheme(credentials) # 0 THEN oauth2_scheme(credentials)
    ELSE IF credentials = "invalid" THEN 403
    ELSE IF credentials = "incomplete" THEN 401
    ELSE 0

\* require_role(required_roles): the role of the user must be one of them
Mut_require_role(required_roles, credentials) == get_current_user(credentials)

require_role(required_roles, credentials) ==
    IF get_current_user(credentials) # 0 THEN get_current_user(credentials)
    ELSE IF credentials \notin required_roles THEN 403
    ELSE 0

\* is_authenticated: the token must decode
is_authenticated(credentials) ==
    IF oauth2_scheme(credentials) # 0 THEN oauth2_scheme(credentials)
    ELSE IF credentials = "invalid" THEN 401
    ELSE 0

\* The dependency of a route: the status code it raises, 0 if it lets the
\* request through
route_dependency(route, credentials) ==
    CASE route.dependency = "admin" -> require_role({"admin"}, credentials)
      [] route.dependency = "is_authenticated" -> is_authenticated(credentials)
      [] OTHER -> 0

\* What the answer of an admin to a configuration POST leaves in config_posts
posted(route, request, credentials) ==
    IF request.method = "POST" /\ request.path[1] = "config" /\ credentials = "admin"
    THEN IF request.path = <<"config", "revert">> /\ config_posts # "other"
         THEN "revert" ELSE "other"
    ELSE config_posts

\* A request: the dependency of the route is solved before the body is
\* looked at and before the endpoint runs; the endpoints of the
\* configuration routes add a background task and answer, the reboot
\* endpoint writes to the watchdog device, the log endpoint serves the file
api_request(request, credentials) ==
    LET route == Routes[first_match(request)]
        denied == route_dependency(route, credentials)
        answer == [NoAnswer EXCEPT !.method = request.method, !.path = request.path,
                                   !.credentials = credentials,
                                   !.endpoint = route.endpoint] IN
    /\ nreq < MaxRequests
    /\ nreq' = nreq + 1
    /\ first_match(request) # 0
    /\ config_posts' = posted(route, request, credentials)
    /\ IF denied # 0
       THEN /\ api_answer' = [answer EXCEPT !.code = denied]
            /\ UNCHANGED <<background_tasks, watchdog>>
       ELSE IF route.body /\ ~request.body.present
       THEN /\ api_answer' = [answer EXCEPT !.code = 422]
            /\ UNCHANGED <<background_tasks, watchdog>>
       ELSE CASE route.endpoint = "update_custom_config" ->
                   /\ background_tasks' =
                          Append(background_tasks,
                                 BackgroundTask("_update_config_task", "none",
                                                request.body.json))
                   /\ api_answer' = [answer EXCEPT !.code = 200, !.changed = TRUE]
                   /\ UNCHANGED watchdog
              [] route.endpoint = "update_config_section" ->
                   /\ background_tasks' =
                          Append(background_tasks,
                                 BackgroundTask("_update_section_task", request.path[2],
                                                request.body.json))
                   /\ api_answer' = [answer EXCEPT !.code = 200, !.changed = TRUE]
                   /\ UNCHANGED watchdog
              [] route.endpoint = "revert_to_defaults" ->
                   /\ background_tasks' =
                          Append(background_tasks,
                                 BackgroundTask("_revert_config_task", "none", EmptyDoc))
                   /\ api_answer' = [answer EXCEPT !.code = 200, !.changed = TRUE]
                   /\ UNCHANGED watchdog
              [] route.endpoint = "reboot_system" ->
                   /\ watchdog' = Written(watchdog, time)
                   /\ api_answer' = [answer EXCEPT !.code = 200, !.changed = TRUE]
                   /\ UNCHANGED background_tasks
              [] route.endpoint \in {"get_camera_log", "get_router_log"} ->
                   /\ \E exists \in BOOLEAN :
                         api_answer' = [answer EXCEPT
                                           !.code = IF exists THEN 200 ELSE 404,
                                           !.served = exists]
                   /\ UNCHANGED <<background_tasks, watchdog>>
              [] OTHER ->
                   /\ api_answer' = [answer EXCEPT !.code = 200,
                                                   !.document = get_full_config,
                                                   !.after_revert = config_posts = "revert"]
                   /\ UNCHANGED <<background_tasks, watchdog>>
    /\ UNCHANGED <<queue, relay_vars, rule_vars, sched_vars, cfg_vars, time, sink_vars,
                   redis_keys, nreboots, listener_vars, health_vars, awaiting, reload_vars, query_vars, lock_vars,
                   stream_vars, command_vars>>

\* A background task runs after its response has been sent:
\* _update_config_task, _update_section_task or _revert_config_task call the
\* configuration manager, which has no listener and a disk that takes the file
run_background_task(i) ==
    LET t == background_tasks[i]
        current == IF config_manager._custom_config # EmptyDoc
                   THEN config_manager._custom_config
                   ELSE config_manager._default_config
        new_config ==
            IF t.task = "_update_config_task" THEN t.new_config
            ELSE [key \in DOMAIN current \cup {t.section} |->
                     IF key = t.section THEN t.new_config ELSE current[key]] IN
    /\ i \in DOMAIN background_tasks
    /\ background_tasks' = Remove(background_tasks, i)
    /\ IF t.task = "_revert_config_task"
       THEN /\ config_manager' =
                   [config_manager EXCEPT
                       !._custom_config = EmptyDoc,
                       !._effective_config = config_manager._default_config]
            /\ custom_file' = NoFile
       ELSE /\ config_manager' =
                   [config_manager EXCEPT
                       !._custom_config = new_config,
                       !._effective_config =
                           generate_effective_config(config_manager._default_config,
                                                     new_config)]
            /\ custom_file' = save_custom_config(new_config, TRUE, FALSE)
    /\ UNCHANGED <<queue, relay_vars, rule_vars, sched_vars, time, sink_vars, reboot_vars,
                   listener_vars, health_vars, awaiting, reload_vars, query_vars, lock_vars, stream_vars, command_vars,
                   pending_section, cfg_hist, ncfg, api_answer, config_posts, nreq>>

\* The configuration manager is initialized, with or without a custom file
InitApi ==
    /\ InitRelays([Relays -> {"INACTIVE"}])
    /\ rule_op = ">"
    /\ redis_client = TRUE
    /\ RulesIdle
    /\ SchedIdle
    /\ \E custom \in {EmptyDoc, [general |-> [system_name |-> "Site 7"]]} :
          /\ config_manager =
                 [_default_config |-> DefaultDoc, _custom_config |-> custom,
                  _effective_config |-> generate_effective_config(DefaultDoc, custom),
                  _is_initialized |-> TRUE]
          /\ custom_file = IF custom = EmptyDoc THEN NoFile ELSE File(custom)
    /\ pending_section = {}
    /\ cfg_hist = NoCall
    /\ ncfg = 0
    /\ ServicesIdle

NextApi ==
    \/ \E request \in ApiRequests, credentials \in Credentials :
          api_request(request, credentials)
    \/ \E i \in 1..MaxRequests : run_background_task(i)

SpecApi == InitApi /\ [][NextApi]_vars

Next ==
    \/ \E r \in Relays : turn_relay_on(r)
    \/ \E r \in Relays : turn_relay_off(r)
    \/ \E r \in Relays : pulse_route_read(r)
    \/ pulse_route_submit
    \/ \E w \in Slots : get_relay_state(w)
    \/ \E w \in Slots : turn_on_off(w)
    \/ \E w \in Slots : toggle(w)
    \/ \E w \in Slots : set_relay_state(w)
    \/ \E w \in Slots : pulse_relay(w)

Spec == Init /\ [][Next]_vars

\* Pulses and nothing else: no other command is applied to the relays
NextPulses ==
    \/ \E r \in Relays : pulse_route_read(r)
    \/ pulse_route_submit
    \/ \E w \in Slots : get_relay_state(w)
    \/ \E w \in Slots : toggle(w)
    \/ \E w \in Slots : pulse_relay(w)
    \/ \E w \in Slots : turn_on_off(w)
    \/ \E w \in Slots : set_relay_state(w)

SpecPulses == Init /\ [][NextPulses]_vars

(***************************************************************************)
(* Claims about the relay authority.                                       *)
(***************************************************************************)
InProgress(r) == {w \in Slots : run[w].pc = "write" /\ run[w].msg.relay = r}

Requested(m) == IF m.state THEN 1 ELSE 0

\* C1: for every relay, the commands are applied one at a time in the order
\* in which they pass the relay's gate, and whenever none is in progress the
\* relay's logical state is the state requested by the last command that was
\* applied successfully (the state it observed if its write failed).
C1_LastCommandWins ==
    \A r \in Relays :
        InProgress(r) = {} =>
            /\ last[r].seq = gateSeq[r]
            /\ current_state(r) = lastok[r]
            /\ last[r].status # "none" => current_state(r) = last[r].state
            /\ last[r].msg.task = "set_relay_state" /\ last[r].status = "success"
                  => current_state(r) = Requested(last[r].msg)

\* C1 witness: a third command on one relay has been applied, a turn_on or
\* turn_off that changed the state, and nothing is left to run.
C1_Witness ==
    \E r \in Relays :
        /\ InProgress(r) = {}
        /\ queue = <<>>
        /\ last[r].seq >= 3
        /\ last[r].msg.task = "set_relay_state"
        /\ last[r].msg.origin = "api"
        /\ last[r].status = "success"
        /\ last[r].before # last[r].state

\* C2: at any moment at most one state-changing operation (turn_on, turn_off
\* or the toggle of a pulse) is between its read and the end of its write on
\* a given relay, and the relay's lock is held only by such an operation.
C2_MutualExclusion ==
    \A r \in Relays :
        /\ Cardinality(InProgress(r)) <= 1
        /\ lock[r] => \E w \in InProgress(r) : run[w].msg.task = "set_relay_state"

\* C2 witness: a toggle is in progress on a relay while the next command for
\* the same relay waits in the queue.
C2_Witness ==
    \E w \in Slots :
        /\ run[w].pc = "write"
        /\ run[w].msg.task = "pulse_relay"
        /\ queue # <<>>
        /\ Head(queue).relay = run[w].msg.relay
        /\ Head(queue).task = "set_relay_state"

\* C3: a successful turn_on (turn_off) leaves the line ACTIVE (INACTIVE) on a
\* normally-open relay and INACTIVE (ACTIVE) on a normally-closed one, a state
\* read that follows it returns 1 (0), and translating a logical state to a
\* level and back gives the same logical state, for both polarities.
C3_Polarity ==
    /\ \A n \in {"open", "closed"} : \A st \in {0, 1} :
          hardware_to_logical_state(n, logical_to_hardware_value(n, st)) = st
    /\ \A r \in Relays :
          last[r].msg.task = "set_relay_state" /\ last[r].status = "success" =>
              /\ level[r] = IF (HARDWARE_CONFIG[r] = "open") = last[r].msg.state
                            THEN "ACTIVE" ELSE "INACTIVE"
              /\ lastget[r] # -1 => lastget[r] = Requested(last[r].msg)

\* C3 witness: the normally-closed relay was OFF, a turn_on succeeded, and the
\* state read after it returned 1.
C3_Witness ==
    /\ HARDWARE_CONFIG["relay_1"] = "closed"
    /\ last["relay_1"].msg.task = "set_relay_state"
    /\ last["relay_1"].msg.state
    /\ last["relay_1"].status = "success"
    /\ last["relay_1"].before = 0
    /\ level["relay_1"] = "INACTIVE"
    /\ lastget["relay_1"] = 1

\* C4: a pulse of a relay in state s drives it to the opposite state and
\* reports s as the initial state, and its scheduled reverse step, when no
\* other command was applied in between, leaves the relay in state s again.
C4_PulseReversible ==
    \A r \in Relays :
        /\ last[r].msg.task = "pulse_relay" /\ last[r].status = "success" =>
              /\ last[r].state = 1 - last[r].before
              /\ last[r].initial_state = last[r].before
        /\ (/\ last[r].msg.origin = "pulse"
            /\ ~last[r].msg.touched
            /\ last[r].msg.post = 1 - last[r].msg.pre
            /\ last[r].status = "success")
              => last[r].state = last[r].msg.pre

\* C5: if another command has changed the relay's state between a pulse's
\* toggle and its scheduled reverse step, the reverse step does not change
\* the relay's state.
C5_ReverseGivesUp ==
    \A r \in Relays :
        last[r].msg.origin = "pulse" /\ last[r].msg.moved
            => last[r].state = last[r].before

\* C6: a turn_on or turn_off reports success only when the state read back
\* after the write is the commanded state; when the read-back differs it
\* reports error; the state it reports is always the state read back from the
\* line; and the route answers 200 only with the commanded state, 500 when the
\* read-back differs.
C6_ReadBack ==
    \A r \in Relays :
        last[r].msg.task = "set_relay_state" =>
            /\ last[r].state = current_state(r)
            /\ last[r].status = "success" => last[r].state = Requested(last[r].msg)
            /\ last[r].state # Requested(last[r].msg) => last[r].status = "error"
            /\ LET resp == turn_relay_response(last[r]) IN
                  /\ resp.code = 200 => resp.state = Requested(last[r].msg)
                  /\ last[r].state # Requested(last[r].msg) => resp.code = 500

\* C6 witness: a turn_on whose write did not take effect reported an error
\* with the observed state 0.
C6_Witness ==
    \E r \in Relays :
        /\ last[r].msg.task = "set_relay_state"
        /\ last[r].msg.state
        /\ last[r].status = "error"
        /\ last[r].state = 0
        /\ turn_relay_response(last[r]).code = 500

(***************************************************************************)
(* Claims about the rule engine.                                           *)
(***************************************************************************)
\* The latch of a rule as the rule engine reads it while the cache answers
RuleLatch(id) ==
    get_rule_state([redis |-> redis_state, local |-> local_rule_states], id, TRUE)

\* C7: for the samples of one source evaluated one after another against a
\* rule, the rule's actions are dispatched at exactly the samples at which
\* the predicate is true while the latch is false, and at no other sample;
\* for "> 10" and the values 9,10,11,12,11,9,8,11 they fire exactly twice.
C7_EdgeTriggered ==
    /\ \A id \in RuleIds : ~hist[id].wrong
    /\ (rule_op = ">" /\ hist["t1"].evals = Len(Example)
            /\ hist["t1"].example = Len(Example))
          => hist["t1"].fired = 2

\* C8: once a TRIGGERED edge has set the latch, the latch stays true, whatever
\* becomes of the dispatch and the execution of the actions, until a sample
\* with a false predicate is evaluated, and no sample that still satisfies
\* the predicate fires the actions again.
C8_LatchSurvivesActions ==
    \A id \in RuleIds :
        hist[id].latched /\ hist[id].fired > 0
            => RuleLatch(id) /\ ~hist[id].refired

(***************************************************************************)
(* Claims about the schedules.                                             *)
(***************************************************************************)
\* Minutes since midnight of a zero-padded HH:MM text
Minutes(text) ==
    ((text[1] - 48) * 10 + (text[2] - 48)) * 60 + (text[4] - 48) * 10 + (text[5] - 48)

\* The bit of a weekday: Sunday = 2, Monday = 4, ..., Saturday = 128
WeekdayBit(weekday) == IF weekday = 6 THEN 2 ELSE 2 ^ (weekday + 2)

\* The schedule semantics in minutes of the day
ScheduledOn(schedule, t) ==
    LET on == Minutes(schedule.on_time)
        off == Minutes(schedule.off_time)
        cur == t.hour * 60 + t.minute
    IN  /\ schedule.present
        /\ schedule.enabled
        /\ (schedule.days_mask \div WeekdayBit(t.weekday)) % 2 = 1
        /\ IF on <= off THEN on <= cur /\ cur < off ELSE cur >= on \/ cur < off

\* C9: for zero-padded HH:MM on_time and off_time, every instant and every
\* days_mask, should_be_on is true exactly when the schedule is enabled, the
\* bit of the current weekday is set in days_mask and the current time lies
\* in [on_time, off_time), or in [on_time, 24:00) or [00:00, off_time) when
\* on_time is after off_time; for 22:00-06:00 Mon-Fri it is true at Mon 23:00
\* and Tue 05:00, false at Sat 23:00 and Mon 06:00.
C9_ScheduleSemantics ==
    /\ \A r \in Relays :
          LET schedule == config_relays[r].schedule IN
          (/\ checked[r].status = "checked"
           /\ Len(schedule.on_time) = 5
           /\ Len(schedule.off_time) = 5)
              => (checked[r].should <=> ScheduledOn(schedule, checked[r].at))
    /\ should_be_on(RelayConfig(TRUE, MonFri2200to0600), Instant(0, 23, 0))
    /\ should_be_on(RelayConfig(TRUE, MonFri2200to0600), Instant(1, 5, 0))
    /\ ~should_be_on(RelayConfig(TRUE, MonFri2200to0600), Instant(5, 23, 0))
    /\ ~should_be_on(RelayConfig(TRUE, MonFri2200to0600), Instant(0, 6, 0))

\* C9 witness: the 22:00-06:00 Mon-Fri schedule was evaluated on Tuesday at
\* 05:00, in the part of the window after midnight, and found to be on.
C9_Witness ==
    /\ config_relays["relay_3"].schedule = MonFri2200to0600
    /\ checked["relay_3"].status = "checked"
    /\ checked["relay_3"].at = Instant(1, 5, 0)
    /\ checked["relay_3"].should

ScheduleMessages ==
    {queue[i] : i \in {j \in DOMAIN queue : queue[j].origin = "schedule"}}
        \cup {eta[i] : i \in {j \in DOMAIN eta : eta[j].origin = "schedule"}}

\* C10: the schedule check issues no command for a relay whose enabled flag
\* is false or whose schedule is absent or disabled, and every command it
\* issues is a set_relay_state to ON or to OFF, never a pulse.
C10_ScheduleCheckScope ==
    /\ \A r \in Relays :
          LET relay == config_relays[r] IN
          (~relay.enabled \/ ~relay.schedule.present \/ ~relay.schedule.enabled)
              => /\ checked[r].issued = "none"
                 /\ \A m \in ScheduleMessages : m.relay # r
                 /\ \A w \in Slots : run[w].msg.origin = "schedule" => run[w].msg.relay # r
                 /\ last[r].msg.origin # "schedule"
    /\ \A m \in ScheduleMessages : m.task = "set_relay_state" /\ m.state \in BOOLEAN
    /\ \A r \in Relays : checked[r].issued \in {"none", "on", "off"}

\* C10 witness: a check passed over relay_3, whose enabled flag is false and
\* whose enabled schedule asks for another state than the relay has, and
\* issued a command for relay_1 in the same tick.
C10_Witness ==
    /\ ~config_relays["relay_3"].enabled
    /\ config_relays["relay_3"].schedule.enabled
    /\ checked["relay_3"].status = "skipped"
    /\ should_be_on(config_relays["relay_3"], checked["relay_3"].at)
          # (current_state("relay_3") = 1)
    /\ checked["relay_1"].issued # "none"
    /\ \E m \in ScheduleMessages : m.relay = "relay_1"

HasId(element) == "id" \in DOMAIN element

\* The elements of a custom list that carry the id
Naming(custom_list, id) == SelectSeq(custom_list, LAMBDA e : HasId(e) /\ e.id = id)

\* The value that the last element naming the key gives it
LastValue(elements, key) ==
    LET named == SelectSeq(elements, LAMBDA e : key \in DOMAIN e) IN
    named[Len(named)][key]

NamedKeys(elements) == UNION {DOMAIN elements[j] : j \in DOMAIN elements}

\* A default element after the custom elements of its id: only the keys they
\* name have changed, one level down for a key that holds a map
OnlyNamedKeysChanged(merged, default, elements) ==
    /\ DOMAIN merged = DOMAIN default \cup NamedKeys(elements)
    /\ \A key \in DOMAIN merged :
          IF key \notin NamedKeys(elements) THEN merged[key] = default[key]
          ELSE IF key \in DictKeys /\ key \in DOMAIN default
          THEN LET maps == [j \in DOMAIN SelectSeq(elements, LAMBDA e : key \in DOMAIN e) |->
                               SelectSeq(elements, LAMBDA e : key \in DOMAIN e)[j][key]]
               IN  /\ DOMAIN merged[key] = DOMAIN default[key] \cup NamedKeys(maps)
                   /\ \A sub \in DOMAIN merged[key] :
                         merged[key][sub] = IF sub \in NamedKeys(maps)
                                            THEN LastValue(maps, sub)
                                            ELSE default[key][sub]
          ELSE merged[key] = LastValue(elements, key)

MergedById(merged, default_list, custom_list) ==
    LET known == {default_list[i].id : i \in DOMAIN default_list}
        new == SelectSeq(custom_list, LAMBDA e : HasId(e) /\ e.id \notin known)
    IN  /\ Len(merged) = Len(default_list) + Len(new)
        /\ \A j \in DOMAIN new : merged[Len(default_list) + j] = new[j]
        /\ \A i \in DOMAIN default_list :
              LET elements == Naming(custom_list, default_list[i].id) IN
              IF elements = <<>> THEN merged[i] = default_list[i]
              ELSE OnlyNamedKeysChanged(merged[i], default_list[i], elements)

\* C12: the relays and the tasks of the effective configuration are the
\* default list merged by id with the custom list: a custom element is merged
\* into the default element of its id and changes only the keys it names, a
\* custom element with a new id is appended, a default element whose id the
\* custom list lacks stays as it is and where it is; custom relays =
\* [{id: relay_2, pulse_time: 9}] changes only relay_2.pulse_time.
C12_MergeById ==
    config_manager._is_initialized =>
        /\ \A key \in {"relays", "tasks"} :
              key \in DOMAIN config_manager._custom_config =>
                  MergedById(config_manager._effective_config[key],
                             config_manager._default_config[key],
                             config_manager._custom_config[key])
        /\ config_manager._custom_config = [relays |-> <<[id |-> "relay_2", pulse_time |-> "9"]>>]
              => config_manager._effective_config =
                     [DefaultDoc EXCEPT !.relays[2].pulse_time = "9"]

\* C12 witness: an update gave the custom relays an element for relay_2 and
\* an element with a new id, and the effective list has four relays.
C12_Witness ==
    /\ cfg_hist.op = "update_full"
    /\ "relays" \in DOMAIN config_manager._custom_config
    /\ config_manager._custom_config.relays =
           <<[id |-> "relay_9", pulse_time |-> "9"], [id |-> "relay_8"]>>
    /\ Len(config_manager._effective_config.relays) = 5

\* C13: update_full(get_full()) leaves the effective configuration as it was.
C13_RoundTrip ==
    cfg_hist.op = "round_trip" => cfg_hist.effective_kept

\* C13 witness: the effective configuration that was sent back differed from
\* the default, with a relay appended by an earlier update.
C13_Witness ==
    /\ cfg_hist.op = "round_trip"
    /\ config_manager._effective_config # DefaultDoc
    /\ Len(config_manager._effective_config.relays) > 3
    /\ config_manager._custom_config = config_manager._effective_config

\* C14: after revert_to_defaults has returned True the effective
\* configuration is the default document and no custom override is left, in
\* memory or on disk.
C14_RevertClean ==
    (cfg_hist.op = "revert" /\ cfg_hist.result) =>
        /\ config_manager._effective_config = DefaultDoc
        /\ config_manager._custom_config = EmptyDoc
        /\ ~custom_file.exists

\* C15: an update_full or update_section whose document does not fit the
\* schema returns an error and leaves the custom file as it was.
C15_InvalidRejected ==
    (cfg_hist.op \in {"update_full", "update_section"} /\ ~cfg_hist.fits) =>
        /\ ~cfg_hist.result
        /\ cfg_hist.file_kept

\* C16: after every successful load the effective configuration passes the
\* schema validation and the source and field of every rule are a declared
\* sensor and one of its fields.
C16_EffectiveValid ==
    (config_manager._is_initialized /\ (cfg_hist.op = "revert" \/ cfg_hist.result)) =>
        /\ validate(config_manager._effective_config)
        /\ \A i \in DOMAIN config_manager._effective_config.tasks :
              LET task == config_manager._effective_config.tasks[i] IN
              task.source \in SensorSources /\ task.field \in SensorFields


(***************************************************************************)
(* Claims about the time-series sink.                                      *)
(***************************************************************************)
\* C17: circuit breaker opening. After failure_threshold consecutive failed
\* writes to the store the breaker is open, and a flush that finds the breaker
\* open with reset_timeout not elapsed since the last failure drops its batch
\* without contacting the store.
C17_BreakerOpens ==
    /\ sink_hist.failed_writes >= failure_threshold
          => connection_manager.circuit_open
    /\ sink_hist.flush.open
          => ~sink_hist.flush.contacted /\ ~sink_hist.flush.stored

\* C18: circuit breaker recovery. With the breaker open and the store still
\* failing, a failed probe leaves the breaker open and no other call reaches
\* the store within reset_timeout of it; a successful probe leaves the breaker
\* closed with the failure count cleared.
C18_BreakerRecovery ==
    /\ sink_hist.flush.probe /\ ~sink_hist.flush.stored
          => connection_manager.circuit_open
    /\ ~sink_hist.early
    /\ sink_hist.flush.probe /\ sink_hist.flush.stored
          => ~connection_manager.circuit_open /\ connection_manager.failure_count = 0

\* C19: the hand-off of a sample to rule evaluation never waits for a call of
\* the store (connection attempt or batch write) to finish.
C19_HandoffNeverWaits ==
    sink_hist.handoff.done => ~sink_hist.handoff.waited


(***************************************************************************)
(* Claims about the reboot action.                                         *)
(***************************************************************************)
\* C20: reboot debouncing. No reboot action writes to the watchdog device
\* within 60 s after a reboot action that wrote to it.
C20_RebootDebounced == ~watchdog.rewritten


C22_HandedOutCopies ==
    /\ cfg_hist.op = "get_full" => cfg_hist.effective_kept
    /\ ~notify_hist.effective_changed


(***************************************************************************)
(* Claims about the sensor health.                                         *)
(***************************************************************************)
\* C23: sensor health. A sensor is reported unhealthy exactly when its three
\* most recent reads all failed, whatever the kind of failure; one or two
\* failed reads do not mark it, and the first successful read clears the flag.
C23_UnhealthyAfterThree ==
    \A r \in Relays :
        r \in get_sensor_health <=> failed_reads[r] >= UnhealthyAfter


(***************************************************************************)
(* Claims about the API routes.                                            *)
(***************************************************************************)
\* C24: every relay command and state query of the API carries a deadline
\* enforced by the route: a request that waits for the result of its task
\* returns, with a timeout error if the worker never produces the result.
C24_RequestsReturn ==
    \A route \in WaitingRoutes :
        (awaiting[route].pc = "waiting") ~> (awaiting[route].pc = "returned")


(***************************************************************************)
(* Claims about the live streams.                                          *)
(***************************************************************************)
\* C25: for every live-stream connection, once a send has failed or the peer
\* has closed the connection, the loop of the connection eventually exits and
\* the connection is removed from the registry of active connections; no
\* connection whose loop has exited remains registered.
C25_StreamsEnd ==
    /\ [](\A c \in Connections :
             streams[c].pc = "done" => c \notin active_connections)
    /\ \A c \in Connections :
          (streams[c].pc = "loop"
              /\ (streams[c].peer = "closed" \/ streams[c].send_failed))
             ~> (streams[c].pc = "done" /\ c \notin active_connections)


(***************************************************************************)
(* Claims about the answers of the API.                                    *)
(***************************************************************************)
\* C26: a relay command (on, off or pulse) naming an id that is not a
\* configured relay is answered 404 and changes the state of no relay.
C26_UnknownRelayNotFound ==
    (command.route # "none" /\ command.relay_id \notin configured)
        => (command.code = 404 /\ command.after = command.before)


\* The requests that only an admin may make
AdminOnlyRequests ==
    {<<"POST", <<"config">>>>, <<"POST", <<"config", "general">>>>,
     <<"POST", <<"config", "revert">>>>, <<"GET", <<"device", "logs", "camera">>>>,
     <<"POST", <<"device", "reboot">>>>}

\* C27: every admin-only endpoint (full configuration update, section update,
\* revert, log download, reboot) answers 403 to a valid token of role user
\* and 401 to a request without token, and in neither case performs or
\* schedules the operation.
C27_AdminOnly ==
    (<<api_answer.method, api_answer.path>> \in AdminOnlyRequests
        /\ api_answer.credentials \in {"user", "none"})
    => /\ api_answer.code = IF api_answer.credentials = "user" THEN 403 ELSE 401
       /\ ~api_answer.changed
       /\ ~api_answer.served

\* A user has been refused the reboot after an admin has had a configuration
\* update scheduled
C27_Witness ==
    /\ api_answer.credentials = "user"
    /\ api_answer.path = <<"device", "reboot">>
    /\ api_answer.code = 403
    /\ watchdog.writes = 0
    /\ background_tasks # <<>>


\* C28: an admin POST to /config/revert is handled by the revert-to-defaults
\* operation, not by the section-update route with the section name revert,
\* and any GET /config issued after the response to that POST yields the
\* default document.
C28_RevertThenRead ==
    /\ (api_answer.method = "POST" /\ api_answer.path = <<"config", "revert">>
           /\ api_answer.credentials = "admin")
       => api_answer.endpoint = "revert_to_defaults"
    /\ (api_answer.method = "GET" /\ api_answer.path = <<"config">>
           /\ api_answer.code = 200 /\ api_answer.after_revert)
       => api_answer.document = config_manager._default_config


(***************************************************************************)
(* Claims about the order of the latch and the actions.                    *)
(***************************************************************************)
\* An action of the rule has been dispatched and has not started
ActionsWaiting(id) ==
    \E i \in DOMAIN queue : queue[i].task = "execute_action" /\ queue[i].rule = id

\* C29: the latch transitions of a rule are ordered one after the other, and
\* the actions dispatched on a TRIGGERED edge start executing before the
\* latch of that rule makes its next transition: no transition of the latch
\* is recorded while an action of the rule is still waiting to start.
C29_ActionsStartFirst ==
    [][\A id \in RuleIds :
          ActionsWaiting(id) =>
              /\ redis_state'[id] = redis_state[id]
              /\ local_rule_states'[id] = local_rule_states[id]]_vars


\* C30: when several samples of one source that satisfy a rule's predicate
\* are evaluated in a row, starting with the latch false, only the first of
\* them takes the TRIGGERED edge: the evaluation of the first dispatches the
\* rule's actions once and the evaluation of every later one finds the latch
\* set and dispatches nothing.
C30_FirstEdgeOnly ==
    [][\A id \in RuleIds :
          (hist'[id].evals = hist[id].evals + 1 /\ hist'[id].latched) =>
              hist'[id].fired = hist[id].fired + (IF hist[id].latched THEN 0 ELSE 1)]_vars


(***************************************************************************)
(* Claims about configuration updates and the worker.                      *)
(***************************************************************************)
\* C31: once a configuration update accepted through the write API has
\* completed, the schedule check and the rule evaluation that run next
\* compute from the updated relays, schedules and rules: the configuration
\* a task has read after the update is the one the update stored.
C31_HotReload ==
    reload_hist.read_after =>
        /\ config_relays = reload_hist.updated_to.relays
        /\ rule_op = reload_hist.updated_to.operator


(***************************************************************************)
(* Claims about the execution of the actions.                              *)
(***************************************************************************)
\* The step is an execution of the action at the head of the queue that fails
ActionFails ==
    /\ queue # <<>>
    /\ Head(queue).task = "execute_action"
    /\ redis_faults' = redis_faults + 1

\* C32: a rule action whose execution fails is retried (up to 3 times, after
\* 0.1 s, 0.2 s and 0.4 s) and is reported as failed only after the last
\* retry: the first failed execution of an action leaves the action to be
\* executed again.
C32_ActionsRetried ==
    [][ActionFails => \E i \in DOMAIN queue' : queue'[i] = Head(queue)]_vars


(***************************************************************************)
(* Claims about the queries.                                               *)
(***************************************************************************)
\* The step is a query
Queried == nqueries' = nqueries + 1

\* C33: a query that fails or is refused leaves the breaker state and the
\* failure count that govern the batch writes as they were, and every query
\* closes the connection it opened.
C33_QueriesIsolated ==
    [][Queried =>
          /\ (query_hist'.refused \/ query_hist'.outcome # "ok")
                 => connection_manager' = connection_manager
          /\ query_hist'.closed = query_hist'.opened]_vars


(***************************************************************************)
(* Claims about the flushes of the sink.                                   *)
(***************************************************************************)
\* C34: every sample the sensor poller has put into the sink is flushed
\* (written or dropped) when the buffer reaches the batch size, when the
\* flush interval next elapses, or at shutdown: no sample stays buffered
\* beyond one flush interval, so the points that are in the buffer before a
\* flush interval passes are not in it afterwards.
C34_SamplesFlushed ==
    [][(points_buffer > 0 /\ time' - time >= flush_interval) => points_buffer' = 0]_vars


(***************************************************************************)
(* C35: the lock of the configuration manager is released only by the      *)
(* coroutine that holds it: an operation that has released the lock does   *)
(* not, on its way out, release the lock that another operation acquired   *)
(* in the meantime, so a coroutine that is inside the locked section holds *)
(* the lock until it releases it itself.                                   *)
(***************************************************************************)
C35_ReleasedByHolder ==
    /\ ~lock_hist.stolen
    /\ \A c \in Coroutines :
          coroutines[c].pc = "saving" => cm_lock.locked /\ cm_lock.owner = c


(***************************************************************************)
(* C36: no update is lost between section updates: when a section update   *)
(* returns success, and section updates of other sections returned success *)
(* while it was between its two parts, the custom configuration has the    *)
(* new content of its own section and of those sections, and the effective *)
(* configuration is the one generated from that document.                  *)
(***************************************************************************)
SectionUpdated(call) ==
    /\ call \in pending_section
    /\ \A other \in pending_section' : other.doc # call.doc \/ other.section # call.section
    /\ cfg_hist'.op = "update_section"
    /\ cfg_hist'.result

C36_NoLostUpdate ==
    [][\A call \in pending_section :
          SectionUpdated(call) =>
              LET others == {done \in call.overlapped : done.section # call.section}
                  both == [key \in DOMAIN call.doc \cup {done.section : done \in others} |->
                              IF \E done \in others : done.section = key
                              THEN (CHOOSE done \in others : done.section = key).doc[key]
                              ELSE call.doc[key]]
              IN  /\ config_manager'._custom_config = both
                  /\ config_manager'._effective_config =
                         generate_effective_config(config_manager._default_config, both)
      ]_vars


(***************************************************************************)
(* C37: the latch of a rule reads as it was last written: once             *)
(* set_rule_state(id, s) has returned (the local dict then holds s),       *)
(* get_rule_state(id) returns s until the next set_rule_state for that id, *)
(* whether the cache answers the read or not and whether it took the write *)
(* or not; with no cache and no write so far the latch reads false.        *)
(***************************************************************************)
LastWritten(id) == local_rule_states[id] = 1

C37_LatchReadsLastWrite ==
    \A id \in RuleIds, read_ok \in BOOLEAN :
        LET read == get_rule_state([redis |-> redis_state, local |-> local_rule_states],
                                   id, read_ok)
        IN  /\ local_rule_states[id] # -1 => read = LastWritten(id)
            /\ (~redis_client /\ local_rule_states[id] = -1) => ~read


(***************************************************************************)
(* C38: when the initial toggle of a pulse does not change the relay (the  *)
(* write fails, or the read-back still shows the state before the pulse),  *)
(* the reverse step that the pulse scheduled does not drive the relay to   *)
(* the opposite of the state it had before the pulse: if the reverse step  *)
(* changes the relay at all, it is to the state before the pulse.          *)
(***************************************************************************)
ReverseStepOfFailedToggle(w) ==
    /\ run[w].pc = "write"
    /\ run[w].msg.task = "set_relay_state"
    /\ run[w].msg.origin = "pulse"
    /\ run[w].msg.post = run[w].msg.pre
    /\ run'[w].pc = "idle"

C38_FailedToggleNotReversed ==
    [][\A w \in Slots :
          LET r == run[w].msg.relay IN
          (ReverseStepOfFailedToggle(w) /\ level'[r] # level[r])
              => hardware_to_logical_state(HARDWARE_CONFIG[r], level'[r]) = run[w].msg.pre
      ]_vars


(***************************************************************************)
(* C39: when two pulses of one relay overlap (the second toggles while the *)
(* reverse step of the first is still held back), no write fails and no    *)
(* other command is applied, the relay is in the state it had before the   *)
(* first pulse once the reverse steps of both pulses have run.             *)
(***************************************************************************)
LastReverseStepOfTwo(w) ==
    LET m == run[w].msg IN
    /\ run[w].pc = "write"
    /\ m.task = "set_relay_state"
    /\ m.origin = "pulse"
    /\ m.original >= 0
    /\ run'[w].pc = "idle"
    /\ \A i \in DOMAIN eta' : eta'[i].relay # m.relay
    /\ ncmd' <= 2
    /\ faults' = 0

C39_OverlappingPulsesRestore ==
    [][\A w \in Slots :
          LastReverseStepOfTwo(w)
              => hardware_to_logical_state(HARDWARE_CONFIG[run[w].msg.relay],
                                           level'[run[w].msg.relay])
                     = run[w].msg.original
      ]_vars


(***************************************************************************)
(* C40: after a section update with the content sub has returned success,  *)
(* get_section of that section returns exactly sub, for the dictionary     *)
(* section and for the id-keyed lists relays and tasks alike: an element   *)
(* that sub leaves out is not in the effective section.                    *)
(***************************************************************************)
C40_SectionReadsBack ==
    [][\A call \in pending_section :
          SectionUpdated(call)
              => get_section(config_manager', call.section) = call.doc[call.section]
      ]_vars

====
